---- MODULE Spec2Model ----
(***************************************************************************)
(* Almanac Alarm: the alarm lifecycle (AlarmService), the voice channel    *)
(* (TTSService), the briefing (speakAlmanac) and the platform event        *)
(* handlers (index.js background handler, App.tsx foreground handler and   *)
(* initializeServices), against the platform trigger store (notifee) and   *)
(* the persisted alarm list (AsyncStorage).                                *)
(*                                                                         *)
(* Time is counted in ticks; a day is Day ticks.  A handler runs to        *)
(* completion in one action; what it asked of the platform and of the      *)
(* voice engine is recorded in ev, the record of the last handler run.     *)
(***************************************************************************)
EXTENDS Integers, Sequences, FiniteSets, TLC

VARIABLES
  ids,       \* the alarm ids the user works with in this run of the model
  horizon,   \* the instant at which the clock of this run stops advancing
  now,       \* the wall clock (new Date()), in ticks since the epoch
  tzShift,   \* the change of the local UTC offset at DstAt (device time zone)
  proc,      \* the process: "dead", "headless" (started for a background event,
             \* App not mounted), "fg" (App mounted, in front) or "bg" (behind)
  alarms,    \* AlarmService.alarms, the in-memory Map id -> AlarmData
  storage,   \* AsyncStorage item @AlmanacAlarm:alarms
  triggers,  \* the platform's pending trigger notifications, id -> trigger
  shown,     \* ids of the notifications the platform currently displays
  ttsInit,   \* TTSService.isInitialized
  faulty,    \* how many handler runs have met a failing call so far
  ev,        \* the last handler run: what ran, with what, and what it issued
  brief,     \* one invocation of speakAlmanac followed call by call
  cachedLocation, \* LocationService.cachedLocation
  located,   \* the last call of getCurrentLocation: what it met and returned
  allTides,  \* the predictions handed to TideService.calculateCurrentTide
  currentTide, \* what calculateCurrentTide returned for them, and at which instant
  stations,  \* the provider's answer to the station catalog request
  predictions, \* the provider's answer to the predictions request
  tideEvents, \* what getTidePredictions returned, or the error it threw
  tidesSpeech, \* what getTidesSpeechText made of the returned events
  sunInput,  \* what the solar geometry gives for a place and a date
  sunTimes,  \* what getSunTimes returned for it
  greetClock, \* the local time at which the narration is composed
  greeting,  \* the hour read from it and the greeting chosen
  voice,     \* the calls made to TTSService on their own, and the last of them
  race,      \* where initialize and a concurrent scheduleAlarm stand, await by await
  callers    \* the overlapping calls of TTSService, each at its pending engine call

\* The variables of the alarm lifecycle and of the event handlers.
app == <<ids, horizon, now, tzShift, proc, alarms, storage, triggers, shown, ttsInit, faulty, ev>>

\* The variables of the services that are followed on their own.
briefVars == <<brief>>

locationVars == <<cachedLocation, located>>

tideVars == <<allTides, currentTide, stations, predictions, tideEvents, tidesSpeech>>

sunVars == <<sunInput, sunTimes>>

greetVars == <<greetClock, greeting>>

voiceVars == <<voice>>

raceVars == <<race>>

callerVars == <<callers>>

side == <<briefVars, locationVars, tideVars, sunVars, greetVars, voiceVars, raceVars, callerVars>>

\* What a step of one of these services leaves alone.
exceptBrief == <<app, locationVars, tideVars, sunVars, greetVars, voiceVars, raceVars, callerVars>>

exceptLocation == <<app, briefVars, tideVars, sunVars, greetVars, voiceVars, raceVars, callerVars>>

exceptTide == <<app, briefVars, locationVars, sunVars, greetVars, voiceVars, raceVars, callerVars>>

exceptSun == <<app, briefVars, locationVars, tideVars, greetVars, voiceVars, raceVars, callerVars>>

exceptGreet == <<app, briefVars, locationVars, tideVars, sunVars, voiceVars, raceVars, callerVars>>

exceptVoice == <<briefVars, locationVars, tideVars, sunVars, greetVars, raceVars, callerVars>>

exceptRace == <<briefVars, locationVars, tideVars, sunVars, greetVars, voiceVars, callerVars>>

exceptCallers == <<briefVars, locationVars, tideVars, sunVars, greetVars, voiceVars, raceVars>>

vars == <<app, side>>

-----------------------------------------------------------------------------
(* Bounds of the model *)

Day == 3          \* ticks per day
MaxTime == 5      \* the clock stops here when one alarm id is in use
MaxTimeTwo == 1   \* the clock stops here when two alarm ids are in use
DstShift == 1     \* size, in ticks, of the UTC-offset change at DstAt
MaxFaultyRuns == 1 \* handler runs in which some platform or engine call fails
MaxTtsFrom == 3   \* the latest engine call at which the voice engine may break
MaxHung == 1      \* provider calls of one briefing that never answer
CACHE_MAX_AGE == 2 \* ticks a cached location stays usable (one hour)
MaxFixAge == 1    \* ticks by which a delivered position may be old (maximumAge)
MaxLocTime == 5   \* the clock stops here when the location service is followed
MaxTides == 3     \* predictions in one list
MaxTideTime == 3  \* the latest instant of a prediction and of a calculation
MaxHeight == 2    \* the largest predicted height
TideDay == 2      \* 24 hours, in the ticks of the tide tables
MaxStations == 3  \* stations in the catalog
MaxLat == 2       \* the largest latitude of a station or of a fix
UnitsPerMinute == 2 \* the grain of the computed sun times, per minute
MinutesPerHour == 2 \* minutes in an hour of the sun times
HoursPerDay == 4  \* hours in a day of the sun times
CosScale == 4     \* cosHourAngle is counted in steps of 1 / CosScale
MaxNoonHours == 2 \* hours by which solar noon may lie outside the day
HoursInDay == 24  \* the hours getHours can return
TicksPerHour == 3 \* instants told apart within one hour of the local clock
MaxVoiceCalls == 4 \* calls made to TTSService when it is followed on its own

DstAt == Day + 1  \* the instant at which the local UTC offset changes

Ids == {"a1", "a2"}
NoId == "none"

\* The alarm times a caller submits, relative to the current time.
TimeChoices == {0, 1}

-----------------------------------------------------------------------------
(* Maps (JavaScript Map / JSON array keyed by id) *)

EmptyMap == [x \in {} |-> x]

MapSet(f, k, v) == [x \in (DOMAIN f) \cup {k} |-> IF x = k THEN v ELSE f[x]]

MapDelete(f, k) == [x \in (DOMAIN f) \ {k} |-> f[x]]

-----------------------------------------------------------------------------
(* Date arithmetic in the device's local time zone *)

\* The local UTC offset in force at instant t.
Offset(t) == IF t < DstAt THEN 0 ELSE tzShift

\* LocalTime(t) of ECMAScript: the local wall-clock reading of instant t.
LocalTime(t) == t + Offset(t)

\* UTC(tl) of ECMAScript: the instant of a local wall-clock reading; a reading
\* that is skipped or repeated at the offset change is interpreted with the
\* offset in force before the change.
UTC(tl) ==
  IF tl < DstAt THEN tl
  ELSE IF tl - tzShift >= DstAt THEN tl - tzShift
  ELSE tl

\* alarmTime.setDate(alarmTime.getDate() + 1): the same local wall-clock time
\* on the next calendar day.
AddOneDay(t) == UTC(LocalTime(t) + Day)

-----------------------------------------------------------------------------
(* The state a handler run threads through its calls, and call results *)

\* The services' memory, the stores they write, and the record of what the run
\* has asked of the platform (cmds), the utterances it has handed to
\* TTSService.speak (tried) and those the engine has spoken (said), which steps
\* of a dispatch it has entered (steps) and which of them threw (failed).
Machine(al, st, tr, sh, ti) ==
  [alarms |-> al, storage |-> st, triggers |-> tr, shown |-> sh, ttsInit |-> ti,
   cmds |-> {}, tried |-> <<>>, said |-> <<>>, steps |-> <<>>, failed |-> {},
   ncalls |-> 0, nsave |-> 0]

Return(m) == [m |-> m, ok |-> TRUE]

Throw(m) == [m |-> m, ok |-> FALSE]

\* What the platform and the voice engine do to the calls of one handler run.
\* The voice engine rejects its calls (configuration runs and Tts.speak,
\* counted together) from call number ttsFrom on, or only that one call when
\* ttsOnce; ttsFrom = 0 is an engine that works.
Envs ==
  [armFail : SUBSET Ids,        \* ids whose createTriggerNotification rejects
   cancelFail : BOOLEAN,        \* cancelNotification rejects
   loadFail : BOOLEAN,          \* AsyncStorage.getItem rejects
   saveFailAt : 0..2,           \* which AsyncStorage.setItem of the run rejects
   ttsFrom : 0..MaxTtsFrom,
   ttsOnce : BOOLEAN,
   locOk : BOOLEAN,             \* a location fix is obtained
   alertThrows : BOOLEAN]       \* the global alert() throws

\* An environment in which nothing fails.
Calm ==
  [armFail |-> {}, cancelFail |-> FALSE, loadFail |-> FALSE, saveFailAt |-> 0,
   ttsFrom |-> 0, ttsOnce |-> FALSE, locOk |-> TRUE, alertThrows |-> FALSE]

-----------------------------------------------------------------------------
(* TTSService *)

\* The n-th call of the run to the voice engine resolves.
EngineOk(e, n) ==
  \/ e.ttsFrom = 0
  \/ n < e.ttsFrom
  \/ e.ttsOnce /\ n > e.ttsFrom

\* initialize setting isInitialized before the engine has been configured.
TtsInitializeMarkingFirst(m, e) ==
  IF m.ttsInit THEN Return(m)
  ELSE LET n == m.ncalls + 1
           m1 == [m EXCEPT !.ncalls = n, !.ttsInit = TRUE]
       IN IF EngineOk(e, n) THEN Return(m1) ELSE Throw(m1)

TtsInitialize(m, e) ==
  IF m.ttsInit THEN Return(m)
  ELSE LET n == m.ncalls + 1
           m1 == [m EXCEPT !.ncalls = n]
       IN IF EngineOk(e, n) THEN Return([m1 EXCEPT !.ttsInit = TRUE])
          ELSE Throw(m1)

TtsSpeak(m, e, text) ==
  LET m0 == [m EXCEPT !.tried = Append(@, text)]
      r == IF m0.ttsInit THEN Return(m0) ELSE TtsInitialize(m0, e)
      n == r.m.ncalls + 1
      m1 == [r.m EXCEPT !.ncalls = n]
  IN IF ~r.ok THEN r
     ELSE IF EngineOk(e, n)
          THEN Return([m1 EXCEPT !.said = Append(@, text)])
          ELSE Throw(m1)

\* No call has been made to the service.
NoVoiceCall ==
  [calls |-> 0, op |-> "none", before |-> FALSE, firstOk |-> TRUE, ok |-> TRUE,
   ncalls |-> 0, text |-> "none", said |-> <<>>, heard |-> <<>>]

\* What a speaker may ask the service to say.
VoiceTexts == {"alarm", "almanac"}

\* The callers of the service that can be under way together: the app start,
\* a foreground event and a background dispatch.
Callers == {"appStart", "event", "dispatch"}

\* The engine calls initialize awaits, in their order.
SetupSteps == <<"setDefaultLanguage", "setDefaultRate", "setDefaultPitch", "voices", "setDefaultVoice">>

\* No caller has called the service yet.
NoCallers == [c \in Callers |-> [op |-> "none", pc |-> "idle"]]

\* initialize up to its first await: nothing when isInitialized is set, else
\* the first engine call is issued.
InitializeEnter(init) == IF init THEN "returned" ELSE SetupSteps[1]

\* speak up to its first await: initialize is entered when isInitialized is
\* not set, else Tts.speak is issued.
SpeakEnter(init) == IF init THEN "speak" ELSE InitializeEnter(init)

\* Where a caller stands after the engine call at pc has resolved: the next
\* engine call of initialize (setDefaultVoice only when a voice of the
\* preferred language exists), or after the last one "configured", where
\* isInitialized is set.
AfterEngineCall(pc, hasVoice) ==
  IF pc = "setDefaultLanguage" THEN "setDefaultRate"
  ELSE IF pc = "setDefaultRate" THEN "setDefaultPitch"
  ELSE IF pc = "setDefaultPitch" THEN "voices"
  ELSE IF pc = "voices" /\ hasVoice THEN "setDefaultVoice"
  ELSE IF pc \in {"voices", "setDefaultVoice"} THEN "configured"
  ELSE "returned"

-----------------------------------------------------------------------------
(* AlarmService *)

AlarmData(id, time, enabled, repeat) ==
  [id |-> id, time |-> time, enabled |-> enabled, repeat |-> repeat]

\* Date.toISOString: the UTC calendar day and the time of day of an instant.
ToISOString(t) == [day |-> t \div Day, tod |-> t % Day]

\* new Date(isoString)
ParseDate(iso) == iso.day * Day + iso.tod

\* The JSON array saveAlarms writes.
Stringify(al) == [x \in DOMAIN al |-> [al[x] EXCEPT !.time = ToISOString(al[x].time)]]

\* The Map loadAlarms builds from the stored JSON array.
Parse(json) == [x \in DOMAIN json |-> [json[x] EXCEPT !.time = ParseDate(json[x].time)]]

NoItem == [written |-> FALSE, json |-> EmptyMap]

\* saveAlarms writing only the alarms that are enabled.
saveAlarmsEnabledOnly(m, e) ==
  LET n == m.nsave + 1
      m1 == [m EXCEPT !.nsave = n]
      kept == [x \in {y \in DOMAIN m.alarms : m.alarms[y].enabled} |-> m.alarms[x]]
  IN IF e.saveFailAt = n THEN Throw([m1 EXCEPT !.failed = @ \cup {"setItem"}])
     ELSE Return([m1 EXCEPT !.storage = [written |-> TRUE, json |-> Stringify(kept)]])

saveAlarms(m, e) ==
  LET n == m.nsave + 1
      m1 == [m EXCEPT !.nsave = n]
  IN IF e.saveFailAt = n THEN Throw([m1 EXCEPT !.failed = @ \cup {"setItem"}])
     ELSE Return([m1 EXCEPT !.storage = [written |-> TRUE, json |-> Stringify(m.alarms)]])

loadAlarms(m, e) ==
  IF e.loadFail THEN Throw([m EXCEPT !.failed = @ \cup {"getItem"}])
  ELSE IF m.storage.written
       THEN Return([m EXCEPT !.alarms = Parse(m.storage.json)])
       ELSE Return(m)

\* Variant of ArmTime that leaves a time equal to the current time unmoved.
ArmTimeStrict(time, t) == IF time < t THEN AddOneDay(time) ELSE time

\* The timestamp scheduleAlarm and scheduleAlarmWithoutSaving arm for an alarm
\* time: a time that is not in the future is moved to the next calendar day.
ArmTime(time, t) == IF time <= t THEN AddOneDay(time) ELSE time

Cmd(k, id, ts, rep, given, had, ok) ==
  [k |-> k, id |-> id, ts |-> ts, rep |-> rep, given |-> given, had |-> had, ok |-> ok]

\* notifee.createTriggerNotification({id}, {timestamp, repeatFrequency}): the
\* store keeps one trigger per notification id, a new one replacing the old.
createTriggerNotification(m, e, id, ts, rep, given) ==
  LET ok == id \notin e.armFail
      m1 == [m EXCEPT !.cmds = @ \cup {Cmd("arm", id, ts, rep, given, id \in DOMAIN m.triggers, ok)}]
  IN IF ok
     THEN Return([m1 EXCEPT !.triggers = MapSet(@, id, [timestamp |-> ts, repeat |-> rep])])
     ELSE Throw(m1)

\* notifee.cancelNotification(id): removes the pending trigger and the
\* displayed notification of that id; nothing to remove is no error.
cancelNotification(m, e, id) ==
  LET ok == ~e.cancelFail
      m1 == [m EXCEPT !.cmds = @ \cup {Cmd("cancel", id, 0, FALSE, 0, id \in DOMAIN m.triggers, ok)}]
  IN IF ok
     THEN Return([m1 EXCEPT !.triggers = MapDelete(@, id), !.shown = @ \ {id}])
     ELSE Throw(m1)

\* Variant of scheduleAlarmWithoutSaving that never sets repeatFrequency.
scheduleAlarmWithoutRepeat(m, e, alarm, t) ==
  createTriggerNotification(m, e, alarm.id, ArmTime(alarm.time, t), FALSE, alarm.time)

scheduleAlarmWithoutSaving(m, e, alarm, t) ==
  createTriggerNotification(m, e, alarm.id, ArmTime(alarm.time, t), alarm.repeat, alarm.time)

scheduleAlarm(m, e, alarm, t) ==
  LET alarmTime == ArmTime(alarm.time, t)
      stored == [alarm EXCEPT !.time = alarmTime]
      r == createTriggerNotification(m, e, alarm.id, alarmTime, alarm.repeat, alarm.time)
  IN IF ~r.ok THEN r
     ELSE saveAlarms([r.m EXCEPT !.alarms = MapSet(@, alarm.id, stored)], e)

\* Variant of cancelAlarm that keeps the in-memory record.
cancelAlarmKeepRecord(m, e, alarmId) ==
  LET r == cancelNotification(m, e, alarmId)
  IN IF ~r.ok THEN r ELSE saveAlarms(r.m, e)

cancelAlarm(m, e, alarmId) ==
  LET r == cancelNotification(m, e, alarmId)
  IN IF ~r.ok THEN r
     ELSE saveAlarms([r.m EXCEPT !.alarms = MapDelete(@, alarmId)], e)

getAllAlarms(m) == m.alarms

\* Variant of toggleAlarm that disables an alarm without cancelling its trigger.
toggleAlarmKeepTrigger(m, e, alarmId, enabled, t) ==
  IF alarmId \notin DOMAIN m.alarms THEN Throw(m)
  ELSE LET alarm == m.alarms[alarmId]
       IN IF enabled THEN scheduleAlarm(m, e, [alarm EXCEPT !.enabled = TRUE], t)
          ELSE saveAlarms([m EXCEPT !.alarms = MapSet(@, alarmId, [alarm EXCEPT !.enabled = FALSE])], e)

toggleAlarm(m, e, alarmId, enabled, t) ==
  IF alarmId \notin DOMAIN m.alarms THEN Throw(m)
  ELSE LET alarm == m.alarms[alarmId]
       IN IF enabled
          THEN scheduleAlarm(m, e, [alarm EXCEPT !.enabled = TRUE], t)
          ELSE LET r == cancelAlarm(m, e, alarmId)
               IN IF ~r.ok THEN r
                  ELSE saveAlarms(
                         [r.m EXCEPT !.alarms = MapSet(@, alarmId, [alarm EXCEPT !.enabled = FALSE])],
                         e)

deleteAlarm(m, e, alarmId) == cancelAlarm(m, e, alarmId)

\* The re-schedule loop of initialize over the enabled alarms; a failed
\* re-schedule is logged and the loop goes on.
RECURSIVE Reschedule(_, _, _, _)
Reschedule(m, e, todo, t) ==
  IF todo = {} THEN m
  ELSE LET id == CHOOSE x \in todo : TRUE
           r == scheduleAlarmWithoutSaving(m, e, m.alarms[id], t)
       IN Reschedule(r.m, e, todo \ {id}, t)

\* AlarmService.initialize: the notifee setup (its errors are logged only),
\* loadAlarms, then the re-schedule loop.
AlarmInitialize(m, e, t) ==
  LET r == loadAlarms(m, e)
  IN IF ~r.ok THEN r
     ELSE Return(Reschedule(r.m, e, {id \in DOMAIN r.m.alarms : r.m.alarms[id].enabled}, t))

\* Neither initialize nor scheduleAlarm has been called; earlier: an earlier
\* session of the app has left its alarms behind.  init.stored is the item
\* getItem resolved with, init.todo the array of the re-schedule loop,
\* sched.payload and cancel.payload the JSON handed to setItem.
NoRace ==
  [earlier |-> FALSE,
   init |-> [pc |-> "idle", stored |-> NoItem, todo |-> EmptyMap],
   sched |-> [pc |-> "idle", alarm |-> AlarmData(NoId, 0, FALSE, FALSE),
              payload |-> EmptyMap],
   cancel |-> [pc |-> "idle", id |-> NoId, payload |-> EmptyMap]]

\* The pending triggers of the enabled alarms of a Map.
TriggersOf(al, t) ==
  [x \in {y \in DOMAIN al : al[y].enabled} |->
     [timestamp |-> ArmTime(al[x].time, t), repeat |-> al[x].repeat]]

-----------------------------------------------------------------------------
(* speakAlmanac: the briefing *)

\* Everything runs inside one try block whose catch calls alert().  A location
\* error is noted in failed; it is answered with the error utterance.
speakAlmanac(m, e) ==
  LET r1 == TtsInitialize(m, e)
      r2 == IF ~r1.ok THEN r1
            ELSE IF ~e.locOk
              THEN TtsSpeak([r1.m EXCEPT !.failed = @ \cup {"location"}], e, "locationError")
            ELSE TtsSpeak(r1.m, e, "narration")
  IN IF r2.ok \/ ~e.alertThrows THEN Return(r2.m) ELSE Throw(r2.m)

-----------------------------------------------------------------------------
(* speakAlmanac call by call: the fan-out to the providers and the narration *)

\* The provider calls, in the order of the Promise.allSettled array.
Order == <<"city", "weather", "tides", "air", "sun", "verse">>

Providers == {Order[i] : i \in 1..Len(Order)}

\* What a provider's call does: it delivers data ("ok"), it delivers an empty
\* list of predictions ("empty", the tide provider only), it fails ("fail") or
\* it never answers ("hang": no fetch of a provider carries a timeout).
Outcomes(p) ==
  IF p = "tides" THEN {"ok", "empty", "fail", "hang"} ELSE {"ok", "fail", "hang"}

Pending == [status |-> "pending", value |-> "none"]

\* The settled promise of provider p whose call did o.  Every provider rethrows
\* its error, except getSunTimes, whose catch block returns the current time
\* for sunrise, sunset, dawn and dusk.
Settled(p, o) ==
  IF o = "ok" THEN [status |-> "fulfilled", value |-> "data"]
  ELSE IF o = "empty" THEN [status |-> "fulfilled", value |-> "empty"]
  ELSE IF p = "sun" THEN [status |-> "fulfilled", value |-> "currentTime"]
  ELSE [status |-> "rejected", value |-> "none"]

Section(p, v) == [of |-> p, value |-> v]

\* The order in which speakAlmanac appends the sections to the speech.
SectionOrder == <<"city", "weather", "sun", "tides", "air", "verse">>

\* The test that guards the section of provider p.
Included(results, p) ==
  /\ results[p].status = "fulfilled"
  /\ p = "tides" => results[p].value # "empty"

\* A narration that takes the sections as their providers answered.
ComposeAsAnswered(b) ==
  LET answered == SelectSeq(b.arrival, LAMBDA p : Included(b.results, p))
  IN <<Section("greeting", "data")>>
       \o [i \in 1..Len(answered) |-> Section(answered[i], b.results[answered[i]].value)]

\* The speech string built by speakAlmanac from the settled results of b.
Compose(b) ==
  LET present == SelectSeq(SectionOrder, LAMBDA p : Included(b.results, p))
  IN <<Section("greeting", "data")>>
       \o [i \in 1..Len(present) |-> Section(present[i], b.results[present[i]].value)]

\* No invocation of speakAlmanac is under way.
NoBriefing ==
  [phase |-> "idle", location |-> "notAsked", outcome |-> [p \in Providers |-> "ok"],
   results |-> [p \in Providers |-> Pending], arrival |-> <<>>, requests |-> {},
   speech |-> <<>>, m |-> Machine(EmptyMap, NoItem, EmptyMap, {}, FALSE),
   raised |-> FALSE]

\* The catch block of speakAlmanac: the error is logged and alert() is called.
Caught(b, e) == [b EXCEPT !.phase = "done", !.raised = e.alertThrows]

\* The ways the calls of the providers may go in one briefing.
BriefingOutcomes ==
  {o \in [Providers -> {"ok", "empty", "fail", "hang"}] :
     /\ \A p \in Providers : o[p] \in Outcomes(p)
     /\ Cardinality({p \in Providers : o[p] = "hang"}) <= MaxHung}

\* The voice engine works, or rejects the next call made to it.
NextCallEnvs(m) ==
  {Calm} \cup {[Calm EXCEPT !.ttsFrom = m.ncalls + 1, !.alertThrows = a] : a \in BOOLEAN}

-----------------------------------------------------------------------------
(* LocationService *)

\* cachedLocation = null
NoFix == [known |-> FALSE, timestamp |-> 0]

\* A LocationData whose position was taken at instant t.
Fix(t) == [known |-> TRUE, timestamp |-> t]

\* A cache that ignores the age of its entry.
getCachedLocationOfAnyAge(cached, t) == cached

\* getCachedLocation at instant t: null without a cache entry or when the
\* entry is older than CACHE_MAX_AGE.
getCachedLocation(cached, t) ==
  IF ~cached.known THEN NoFix
  ELSE IF t - cached.timestamp > CACHE_MAX_AGE THEN NoFix
  ELSE cached

\* getCurrentLocation at instant t with cache entry cached: permission says
\* whether requestLocationPermission resolved true, position is the position
\* the platform delivers (NoFix when getCurrentPosition rejects).  The result
\* is given with the cache entry the call leaves behind.
\* getCurrentLocation dropping a cache entry that could not answer.
getCurrentLocationForgetting(cached, t, permission, position) ==
  LET fallback == getCachedLocation(cached, t)
      base == [kind |-> "error", fix |-> NoFix, at |-> t, had |-> cached,
               fresh |-> permission /\ position.known, cache |-> NoFix]
  IN IF permission /\ position.known
       THEN [base EXCEPT !.kind = "fresh", !.fix = position, !.cache = position]
     ELSE IF fallback.known
       THEN [base EXCEPT !.kind = "cached", !.fix = fallback, !.cache = cached]
     ELSE base

getCurrentLocation(cached, t, permission, position) ==
  LET fallback == getCachedLocation(cached, t)
      base == [kind |-> "error", fix |-> NoFix, at |-> t, had |-> cached,
               fresh |-> permission /\ position.known, cache |-> cached]
  IN IF permission /\ position.known
       THEN [base EXCEPT !.kind = "fresh", !.fix = position, !.cache = position]
     ELSE IF fallback.known
       THEN [base EXCEPT !.kind = "cached", !.fix = fallback]
     ELSE base

\* getCurrentLocation has not been called in this process.
NotLocated ==
  [kind |-> "none", fix |-> NoFix, at |-> 0, had |-> NoFix, fresh |-> FALSE,
   cache |-> NoFix]

-----------------------------------------------------------------------------
(* TideService.calculateCurrentTide *)

\* new Date(s) of a string that is not a date: an Invalid Date.
NaT == 0 - 1

\* tideTime <= now and tideTime > now: both are false of an Invalid Date.
AtOrBefore(tm, t) == tm # NaT /\ tm <= t

After(tm, t) == tm # NaT /\ tm > t

\* beforeTide, afterTide = null
NoTide == [known |-> FALSE, time |-> 0, height |-> 0]

\* A predicted TideEvent.
Tide(tm, h) == [known |-> TRUE, time |-> tm, height |-> h]

\* The loop over allTides from index i on: every event at or before t becomes
\* beforeTide, the first event after t becomes afterTide and ends the loop.
RECURSIVE Scan(_, _, _, _)
Scan(tides, i, beforeTide, t) ==
  IF i > Len(tides) THEN [beforeTide |-> beforeTide, afterTide |-> NoTide]
  ELSE IF AtOrBefore(tides[i].time, t) THEN Scan(tides, i + 1, tides[i], t)
  ELSE IF After(tides[i].time, t) THEN [beforeTide |-> beforeTide, afterTide |-> tides[i]]
  ELSE Scan(tides, i + 1, beforeTide, t)

\* An interpolation that starts from the height of the later event.
InterpolateFromAfter(beforeTide, afterTide, t) ==
  LET den == afterTide.time - beforeTide.time
  IN [num |-> afterTide.height * den
                + (afterTide.height - beforeTide.height) * (t - beforeTide.time),
      den |-> den]

\* currentHeight = beforeTide.height + (afterTide.height - beforeTide.height)
\* * timeFraction, as the exact fraction num / den with den = afterTime -
\* beforeTime.
Interpolate(beforeTide, afterTide, t) ==
  LET den == afterTide.time - beforeTide.time
  IN [num |-> beforeTide.height * den
                + (afterTide.height - beforeTide.height) * (t - beforeTide.time),
      den |-> den]

\* calculateCurrentTide has not been called.
NotCalculated ==
  [kind |-> "none", at |-> 0, beforeTide |-> NoTide, afterTide |-> NoTide,
   height |-> [num |-> 0, den |-> 1]]

\* A calculation that takes the first and the last prediction as its bracket.
calculateCurrentTideFromEnds(tides, t) ==
  IF Len(tides) < 2 THEN [NotCalculated EXCEPT !.kind = "null", !.at = t]
  ELSE IF tides[1].time = NaT \/ tides[Len(tides)].time = NaT
            \/ tides[Len(tides)].time <= tides[1].time
    THEN [NotCalculated EXCEPT !.kind = "null", !.at = t]
  ELSE [kind |-> "C", at |-> t, beforeTide |-> tides[1], afterTide |-> tides[Len(tides)],
        height |-> Interpolate(tides[1], tides[Len(tides)], t)]

\* calculateCurrentTide(allTides) called at instant t: null, or the event of
\* type 'C' with the events it was interpolated from.
calculateCurrentTide(tides, t) ==
  LET found == Scan(tides, 1, NoTide, t)
  IN IF ~found.beforeTide.known \/ ~found.afterTide.known
       THEN [NotCalculated EXCEPT !.kind = "null", !.at = t]
     ELSE [kind |-> "C", at |-> t,
           beforeTide |-> found.beforeTide, afterTide |-> found.afterTide,
           height |-> Interpolate(found.beforeTide, found.afterTide, t)]

\* The predictions a station may deliver, in any order.
Predictions == {Tide(tm, h) : tm \in {NaT} \cup 0..MaxTideTime, h \in 0..MaxHeight}

PredictionLists == UNION {[1..n -> Predictions] : n \in 0..MaxTides}

-----------------------------------------------------------------------------
(* TideService.findNearestStation and getTidePredictions *)

\* parseFloat of a string that is not a number.
NaN == 0 - 1

\* calculateDistance between the fix and a station, both on one meridian:
\* proportional to the difference of the latitudes; NaN for a station whose
\* latitude does not parse.
calculateDistance(lat1, lat2) ==
  IF lat2 = NaN THEN NaN
  ELSE IF lat1 <= lat2 THEN lat2 - lat1 ELSE lat1 - lat2

\* nearestStation = null
NoStation == [known |-> FALSE, id |-> 0, distance |-> 0]

\* The loop over data.stations from index i on; minDistance starts at
\* Infinity, which no distance reaches; distance < minDistance is false of NaN.
RECURSIVE Nearest(_, _, _, _)
Nearest(list, i, nearestStation, latitude) ==
  IF i > Len(list) THEN nearestStation
  ELSE LET distance == calculateDistance(latitude, list[i].lat)
       IN IF distance # NaN
               /\ (~nearestStation.known \/ distance < nearestStation.distance)
            THEN Nearest(list, i + 1,
                         [known |-> TRUE, id |-> list[i].id, distance |-> distance],
                         latitude)
          ELSE Nearest(list, i + 1, nearestStation, latitude)

\* A search that keeps the last of the stations at the least distance.
findLastNearestStation(response, latitude) ==
  IF ~response.ok \/ response.stations = <<>> THEN NoStation
  ELSE LET list == response.stations
           ok == {i \in 1..Len(list) : list[i].lat # NaN}
           best == {i \in ok : \A j \in ok :
                      calculateDistance(latitude, list[i].lat)
                        <= calculateDistance(latitude, list[j].lat)}
       IN IF best = {} THEN NoStation
          ELSE LET i == CHOOSE k \in best : \A j \in best : j <= k
               IN [known |-> TRUE, id |-> list[i].id,
                   distance |-> calculateDistance(latitude, list[i].lat)]

\* findNearestStation: null when the request fails (the error is caught), when
\* the catalog is empty, or when no station has a distance.
findNearestStation(response, latitude) ==
  IF ~response.ok THEN NoStation
  ELSE IF response.stations = <<>> THEN NoStation
  ELSE Nearest(response.stations, 1, NoStation, latitude)

\* The TideEvent made of a prediction of the provider: its type is 'H' or 'L'.
TideEvent(prediction) ==
  [known |-> TRUE, type |-> IF prediction.type = "H" THEN "H" ELSE "L",
   time |-> prediction.t, height |-> [num |-> prediction.v, den |-> 1],
   isCurrent |-> FALSE]

\* The same event with its height as a number, as calculateCurrentTide reads it.
Plain(tide) == [tide EXCEPT !.height = tide.height.num]

\* getTidePredictions has not been called.
NoTideEvents ==
  [kind |-> "none", error |-> "none", latitude |-> 0, station |-> NoStation,
   events |-> <<>>, from |-> 0, at |-> 0]

\* getTidePredictions for a fix at latitude: t is the instant read at its
\* start (const now), t2 the instant read by calculateCurrentTide.
getTidePredictions(stationsResponse, response, latitude, t, t2) ==
  LET station == findNearestStation(stationsResponse, latitude)
      base == [NoTideEvents EXCEPT !.latitude = latitude, !.station = station,
                                   !.from = t, !.at = t2]
  IN IF ~station.known THEN [base EXCEPT !.kind = "error", !.error = "noStation"]
     ELSE IF ~response.ok THEN [base EXCEPT !.kind = "error", !.error = "provider"]
     ELSE IF response.predictions = <<>> THEN [base EXCEPT !.kind = "ok"]
     ELSE LET tides == [i \in 1..Len(response.predictions) |->
                          TideEvent(response.predictions[i])]
              current == calculateCurrentTide([i \in 1..Len(tides) |-> Plain(tides[i])], t2)
              futureTides == SelectSeq(tides,
                               LAMBDA e : e.time # NaT /\ e.time >= t /\ e.time <= t + TideDay)
              first == IF current.kind = "C"
                         THEN <<[known |-> TRUE, type |-> "C", time |-> t2,
                                 height |-> current.height, isCurrent |-> TRUE]>>
                       ELSE <<>>
          IN [base EXCEPT !.kind = "ok", !.events = first \o futureTides]

\* The answers of the provider to the two requests.
Station(id, lat) == [id |-> id, lat |-> lat]

Catalogs ==
  UNION {{[i \in 1..n |-> Station(i, lats[i])] : lats \in [1..n -> {NaN} \cup 0..MaxLat]} :
         n \in 0..MaxStations}

StationsResponses ==
  {[ok |-> FALSE, stations |-> <<>>]} \cup {[ok |-> TRUE, stations |-> c] : c \in Catalogs}

OneStation == [ok |-> TRUE, stations |-> <<Station(1, 0)>>]

Prediction(tm, h, ty) == [t |-> tm, v |-> h, type |-> ty]

PredictionsResponses ==
  {[ok |-> FALSE, predictions |-> <<>>]}
    \cup {[ok |-> TRUE, predictions |-> l] :
            l \in UNION {[1..n -> {Prediction(tm, h, ty) :
                                     tm \in {NaT} \cup 0..MaxTideTime,
                                     h \in 0..MaxHeight, ty \in {"H", "L"}}] :
                         n \in 0..MaxTides}}

NoPredictions == [ok |-> TRUE, predictions |-> <<>>]

\* getTidesSpeechText has not been called.
NotSpoken == [called |-> FALSE, text |-> <<>>]

\* height.toFixed(1): the height in tenths of a foot, rounded to the nearest.
toFixed1(height) == (20 * height.num + height.den) \div (2 * height.den)

\* formatTime: the hour and minute of the local day, without its date.
formatTime(tm) == tm % TideDay

\* getTidesSpeechText: the sentences of the tide summary.
getTidesSpeechText(tides) ==
  IF tides = <<>> THEN <<[say |-> "noInformation"]>>
  ELSE LET current == SelectSeq(tides, LAMBDA e : e.isCurrent)
           future == SelectSeq(tides, LAMBDA e : ~e.isCurrent)
       IN (IF current # <<>>
             THEN <<[say |-> "current", feet |-> toFixed1(current[1].height)]>>
           ELSE <<>>)
          \o (IF future # <<>>
                THEN <<[say |-> "next", type |-> future[1].type,
                        at |-> formatTime(future[1].time),
                        feet |-> toFixed1(future[1].height)]>>
              ELSE <<>>)

\* The tide section of speakAlmanac: it is spoken when the tide task is
\* fulfilled with at least one event.
tideSection(result) ==
  IF result.kind = "ok" /\ Len(result.events) > 0
    THEN getTidesSpeechText(result.events)
  ELSE <<>>

-----------------------------------------------------------------------------
(* SunTimesService: calculateSunTimes and getSunTimes (solar geometry) *)

UnitsPerHour == UnitsPerMinute * MinutesPerHour

\* Math.floor(a / b) for b > 0.
Floor(a, b) == a \div b

\* a % b of JavaScript for b > 0: the remainder has the sign of a.
Rem(a, b) == IF a >= 0 THEN a % b ELSE 0 - ((0 - a) % b)

\* Math.round(a / b) for b > 0: halves go up.
Round(a, b) == (2 * a + b) \div (2 * b)

\* (hourAngle * 4) / 1440 for hourAngle = acos(cosHourAngle), in units: none
\* at cosHourAngle = 1, half a day at cosHourAngle = -1, falling in between.
HourAngleOffset(c) == ((CosScale - c) * HoursPerDay * UnitsPerHour) \div (4 * CosScale)

\* calculateSunTimes returned null.
NoSunEvent == [defined |-> FALSE, minute |-> 0]

\* Math.round((hours % 1) * 60)
MinutesOfHours(timeValue) == Round(Rem(timeValue, UnitsPerHour), UnitsPerMinute)

\* calculateSunTimes from the hour-angle test on: cosHourAngle and solarNoon
\* are what the geometry gives for the place, the date and the zenith.  The
\* result is the minute, counted from the midnight of date, to which
\* setHours(Math.floor(hours)) and setMinutes(Math.round((hours % 1) * 60))
\* move the date; null when the sun does not cross the zenith angle that day.
calculateSunTimes(cosHourAngle, solarNoon, isSunrise) ==
  IF cosHourAngle > CosScale \/ cosHourAngle < 0 - CosScale THEN NoSunEvent
  ELSE LET timeValue == IF isSunrise THEN solarNoon - HourAngleOffset(cosHourAngle)
                        ELSE solarNoon + HourAngleOffset(cosHourAngle)
       IN [defined |-> TRUE,
           minute |-> Floor(timeValue, UnitsPerHour) * MinutesPerHour
                        + MinutesOfHours(timeValue)]

\* sunrise || new Date(): a null result is replaced by the current time t.
OrNow(event, t) ==
  IF event.defined THEN [computed |-> TRUE, minute |-> event.minute]
  ELSE [computed |-> FALSE, minute |-> t]

\* getSunTimes called at minute t of the day.
getSunTimes(input, t) ==
  [called |-> TRUE,
   sunrise |-> OrNow(calculateSunTimes(input.cosSun, input.solarNoon, TRUE), t),
   sunset |-> OrNow(calculateSunTimes(input.cosSun, input.solarNoon, FALSE), t),
   dawn |-> OrNow(calculateSunTimes(input.cosCivil, input.solarNoon, TRUE), t),
   dusk |-> OrNow(calculateSunTimes(input.cosCivil, input.solarNoon, FALSE), t)]

\* getSunTimes has not been called.
NoSunTimes ==
  [called |-> FALSE, sunrise |-> [computed |-> FALSE, minute |-> 0],
   sunset |-> [computed |-> FALSE, minute |-> 0],
   dawn |-> [computed |-> FALSE, minute |-> 0],
   dusk |-> [computed |-> FALSE, minute |-> 0]]

\* What the geometry may give: cosHourAngle for the official zenith and, not
\* above it, for the civil-twilight zenith, and solar noon in units from
\* midnight, up to MaxNoonHours outside the day.
SunInputs ==
  {[cosSun |-> c, cosCivil |-> d, solarNoon |-> n] :
     c \in (0 - CosScale - 1)..(CosScale + 1),
     d \in (0 - CosScale - 1)..(CosScale + 1),
     n \in (0 - MaxNoonHours * UnitsPerHour)..((HoursPerDay + MaxNoonHours) * UnitsPerHour)}

\* Day and night of equal length, solar noon in the middle of the day.
Equinox == [cosSun |-> 0, cosCivil |-> 0, solarNoon |-> (HoursPerDay * UnitsPerHour) \div 2]

-----------------------------------------------------------------------------
(* speakAlmanac: getGreeting *)

\* now.getHours() for the local instant t, counted in ticks from a midnight.
getHours(t) == (t \div TicksPerHour) % HoursInDay

\* getGreeting with the morning running through the hour of noon.
getGreetingLateNoon(hour) ==
  IF hour >= 5 /\ hour < 13 THEN "Good morning"
  ELSE IF hour >= 13 /\ hour < 17 THEN "Good afternoon"
  ELSE IF hour >= 17 /\ hour < 21 THEN "Good evening"
  ELSE "Good night"

getGreeting(hour) ==
  IF hour >= 5 /\ hour < 12 THEN "Good morning"
  ELSE IF hour >= 12 /\ hour < 17 THEN "Good afternoon"
  ELSE IF hour >= 17 /\ hour < 21 THEN "Good evening"
  ELSE "Good night"

\* No greeting has been chosen.
NotGreeted == [said |-> FALSE, hour |-> 0, text |-> "none"]

-----------------------------------------------------------------------------
(* App.tsx: handleAlarmFired, initializeServices, the foreground handler *)

\* Any error of the lookup or of deleteAlarm is caught and logged.
\* handleAlarmFired treating an alarm that is not listed as an error.
handleAlarmFiredOrThrow(m, e, alarmId) ==
  IF alarmId \notin DOMAIN getAllAlarms(m) THEN Throw(m)
  ELSE IF ~m.alarms[alarmId].repeat THEN Return(deleteAlarm(m, e, alarmId).m)
  ELSE Return(m)

handleAlarmFired(m, e, alarmId) ==
  IF alarmId \notin DOMAIN getAllAlarms(m) THEN Return(m)
  ELSE IF ~m.alarms[alarmId].repeat THEN Return(deleteAlarm(m, e, alarmId).m)
  ELSE Return(m)

\* initial: the id of the notification that launched the app, or NoId.
initializeServices(m, e, initial, t) ==
  LET r1 == TtsInitialize(m, e)
      r2 == AlarmInitialize(r1.m, e, t)
  IN IF ~r2.ok THEN r2
     ELSE IF initial # NoId THEN handleAlarmFired(r2.m, e, initial)
     ELSE r2

onForegroundEvent(m, e, type, id) ==
  IF type = "DELIVERED"
  THEN LET r == speakAlmanac(m, e)
       IN IF ~r.ok THEN r
          ELSE IF id # NoId THEN handleAlarmFired(r.m, e, id)
          ELSE r
  ELSE IF type = "PRESS" THEN speakAlmanac(m, e)
  ELSE Return(m)

-----------------------------------------------------------------------------
(* index.js: the background event handler *)

Enter(m, step) == [m EXCEPT !.steps = Append(@, step)]

Failed(m, step) == [m EXCEPT !.failed = @ \cup {step}]

\* Variant of the alarm cleanup that lets its error leave the handler.
BgCleanupRethrow(m, e, id) ==
  LET m1 == Enter(m, "resolve")
  IN IF id # NoId /\ id \in DOMAIN getAllAlarms(m1) /\ ~m1.alarms[id].repeat
     THEN LET r == deleteAlarm(m1, e, id)
          IN IF r.ok THEN r ELSE Throw(Failed(r.m, "resolve"))
     ELSE Return(m1)

\* Alarm cleanup: errors are logged, nothing is spoken.
BgCleanup(m, e, id) ==
  LET m1 == Enter(m, "resolve")
  IN IF id # NoId /\ id \in DOMAIN getAllAlarms(m1) /\ ~m1.alarms[id].repeat
     THEN LET r == deleteAlarm(m1, e, id)
          IN Return(IF r.ok THEN r.m ELSE Failed(r.m, "resolve"))
     ELSE Return(m1)

\* Variant of the speakAlmanac step that cleans up before it speaks.
BgBriefingAfterCleanup(m, e, id) ==
  LET rc == BgCleanup(m, e, id)
      r == speakAlmanac(Enter(rc.m, "briefing"), e)
  IN IF r.ok THEN r ELSE TtsSpeak(Failed(r.m, "briefing"), e, "almanacError")

\* speakAlmanac; its error is spoken by a speak call inside the catch block.
BgBriefing(m, e, id) ==
  LET r == speakAlmanac(Enter(m, "briefing"), e)
      rs == IF r.ok THEN r ELSE TtsSpeak(Failed(r.m, "briefing"), e, "almanacError")
  IN IF ~rs.ok THEN rs ELSE BgCleanup(rs.m, e, id)

\* Variant of the AlarmService step that goes on after a failed initialize.
BgAlarmInitContinue(m, e, id, t) ==
  LET r == AlarmInitialize(Enter(m, "alarmInit"), e, t)
      rs == IF r.ok THEN r ELSE TtsSpeak(Failed(r.m, "alarmInit"), e, "alarmInitFailed")
  IN IF ~rs.ok THEN rs ELSE BgBriefing(rs.m, e, id)

\* AlarmService.initialize; on its error the handler speaks and returns.
BgAlarmInit(m, e, id, t) ==
  LET r == AlarmInitialize(Enter(m, "alarmInit"), e, t)
  IN IF ~r.ok THEN TtsSpeak(Failed(r.m, "alarmInit"), e, "alarmInitFailed")
     ELSE BgBriefing(r.m, e, id)

\* TTS initialize and the test utterance; their error is spoken by a speak
\* call inside the catch block.
\* The first step without the test utterance.
BgVoiceInitSilent(m, e, id, t) ==
  LET m1 == Enter(m, "voiceInit")
      ra == TtsInitialize(m1, e)
      rc == IF ra.ok THEN ra ELSE TtsSpeak(Failed(ra.m, "voiceInit"), e, "ttsFailed")
  IN IF ~rc.ok THEN rc ELSE BgAlarmInit(rc.m, e, id, t)

BgVoiceInit(m, e, id, t) ==
  LET m1 == Enter(m, "voiceInit")
      ra == TtsInitialize(m1, e)
      rb == IF ra.ok THEN TtsSpeak(ra.m, e, "handlerCalled") ELSE ra
      rc == IF rb.ok THEN rb ELSE TtsSpeak(Failed(rb.m, "voiceInit"), e, "ttsFailed")
  IN IF ~rc.ok THEN rc ELSE BgAlarmInit(rc.m, e, id, t)

onBackgroundEvent(m, e, type, id, t) ==
  IF type = "DELIVERED" THEN BgVoiceInit(m, e, id, t) ELSE Return(m)

-----------------------------------------------------------------------------
(* The platform *)

\* A daily trigger that fired at or before t is due again at the first
\* instant ts + k days after t (RepeatFrequency.DAILY).
NextDaily(ts, t) == ts + Day * ((t - ts) \div Day + 1)

\* The pending triggers after the trigger of id has fired at t: a repeating
\* trigger stays, due a day later; a one-shot trigger is used up.
AfterFire(tr, id, t) ==
  IF tr[id].repeat
  THEN [tr EXCEPT ![id].timestamp = NextDaily(tr[id].timestamp, t)]
  ELSE MapDelete(tr, id)

-----------------------------------------------------------------------------
(* The record of the last handler run *)

\* op: the handler; id: the alarm or notification id it was given; cold: the
\* process was started for it; oneShot: it handles the firing of a trigger
\* without daily repeat; ok: it returned without an error.
Idle ==
  [op |-> "none", id |-> NoId, cold |-> FALSE, oneShot |-> FALSE, ok |-> TRUE,
   cmds |-> {}, tried |-> <<>>, said |-> <<>>, steps |-> <<>>, failed |-> {}]

Ran(op, id, cold, oneShot, r) ==
  [op |-> op, id |-> id, cold |-> cold, oneShot |-> oneShot, ok |-> r.ok,
   cmds |-> r.m.cmds, tried |-> r.m.tried, said |-> r.m.said,
   steps |-> r.m.steps, failed |-> r.m.failed]

Current == Machine(alarms, storage, triggers, shown, ttsInit)

\* The memory of a process that has just been started.
Fresh(tr, sh) == Machine(EmptyMap, storage, tr, sh, FALSE)

Commit(r) ==
  /\ alarms' = r.m.alarms
  /\ storage' = r.m.storage
  /\ triggers' = r.m.triggers
  /\ shown' = r.m.shown
  /\ ttsInit' = r.m.ttsInit

-----------------------------------------------------------------------------
(* Initial state: the app is installed and not running *)

Start ==
  /\ now = 0
  /\ proc = "dead"
  /\ alarms = EmptyMap
  /\ storage = NoItem
  /\ triggers = EmptyMap
  /\ shown = {}
  /\ ttsInit = FALSE
  /\ faulty = 0
  /\ ev = Idle
  /\ brief = NoBriefing
  /\ cachedLocation = NoFix
  /\ located = NotLocated
  /\ currentTide = NotCalculated
  /\ tideEvents = NoTideEvents
  /\ tidesSpeech = NotSpoken
  /\ sunTimes = NoSunTimes
  /\ greeting = NotGreeted
  /\ voice = NoVoiceCall
  /\ race = NoRace
  /\ callers = NoCallers

\* The inputs of the services that are followed on their own, when they are
\* not the subject g of a run of the model.
Inputs(g) ==
  /\ IF g = "allTides" THEN TRUE ELSE allTides = <<>>
  /\ IF g = "stations" THEN TRUE ELSE stations = OneStation
  /\ IF g = "predictions" THEN TRUE ELSE predictions = NoPredictions
  /\ IF g = "sun" THEN TRUE ELSE sunInput = Equinox
  /\ IF g = "greeting" THEN TRUE ELSE greetClock = 0

\* One alarm id, followed over MaxTime ticks and across the offset change.
Init ==
  /\ ids = {"a1"}
  /\ horizon = MaxTime
  /\ tzShift \in {0 - DstShift, DstShift}
  /\ Start
  /\ Inputs("none")

\* Two alarm ids, followed over MaxTimeTwo ticks.
InitTwo ==
  /\ ids = Ids
  /\ horizon = MaxTimeTwo
  /\ tzShift = DstShift
  /\ Start
  /\ Inputs("none")

-----------------------------------------------------------------------------
(* Actions *)

\* A handler run under environment e: its effects are committed and recorded.
\* At most MaxFaultyRuns runs meet an environment that is not calm.
Run(op, id, cold, oneShot, e, r) ==
  /\ ev = Idle
  /\ e = Calm \/ faulty < MaxFaultyRuns
  /\ Commit(r)
  /\ faulty' = IF e = Calm THEN faulty ELSE faulty + 1
  /\ ev' = Ran(op, id, cold, oneShot, r)

\* The handler has returned; the platform and the user act between runs.
Settle ==
  /\ ev # Idle
  /\ ev' = Idle
  /\ UNCHANGED <<side, ids, horizon, now, tzShift, proc, alarms, storage, triggers, shown, ttsInit, faulty>>

Tick ==
  /\ ev = Idle
  /\ now < horizon
  /\ now' = now + 1
  /\ UNCHANGED <<side, ids, horizon, tzShift, proc, alarms, storage, triggers, shown, ttsInit, faulty, ev>>

\* The platform reclaims the process: the services' memory is lost.
Kill ==
  /\ ev = Idle
  /\ proc # "dead"
  /\ proc' = "dead"
  /\ alarms' = EmptyMap
  /\ ttsInit' = FALSE
  /\ UNCHANGED <<side, ids, horizon, now, tzShift, storage, triggers, shown, faulty, ev>>

ToBackground ==
  /\ ev = Idle
  /\ proc = "fg"
  /\ proc' = "bg"
  /\ UNCHANGED <<side, ids, horizon, now, tzShift, alarms, storage, triggers, shown, ttsInit, faulty, ev>>

ToForeground ==
  /\ ev = Idle
  /\ proc = "bg"
  /\ proc' = "fg"
  /\ UNCHANGED <<side, ids, horizon, now, tzShift, alarms, storage, triggers, shown, ttsInit, faulty, ev>>

\* The environments of a run, each listed once: failures of calls the run
\* cannot reach are not told apart.  A run makes at most one cancel call, and
\* a storage write only after it; alert() is reached only from a failed call
\* of the voice engine; initialize re-schedules only alarms that have a record.
VoiceEnvs(base) ==
  {[base EXCEPT !.ttsFrom = f, !.ttsOnce = o] :
     f \in 0..MaxTtsFrom, o \in BOOLEAN} \ {[base EXCEPT !.ttsOnce = TRUE]}

BriefingEnvs(base) ==
  UNION {{[v EXCEPT !.locOk = l, !.alertThrows = a] :
            l \in BOOLEAN, a \in IF v.ttsFrom = 0 THEN {FALSE} ELSE BOOLEAN} :
         v \in VoiceEnvs(base)}

RemoveEnvs(base) ==
  {base, [base EXCEPT !.cancelFail = TRUE], [base EXCEPT !.saveFailAt = 1]}

InitializeEnvs(base) ==
  {[base EXCEPT !.loadFail = TRUE]}
    \cup {[base EXCEPT !.armFail = af] : af \in SUBSET (DOMAIN storage.json \cup DOMAIN alarms)}

\* The user opens the app (possibly by pressing a displayed notification)
\* while no App component is mounted: App mounts and runs initializeServices.
AppStart ==
  /\ proc \in {"dead", "headless"}
  /\ \E initial \in {NoId} \cup shown, tf \in {0, 1} :
       \E e1 \in InitializeEnvs([Calm EXCEPT !.ttsFrom = tf]) :
         \E e \in IF e1.loadFail \/ initial = NoId THEN {e1} ELSE RemoveEnvs(e1) :
           Run("appStart", initial, proc = "dead", FALSE, e,
               initializeServices(Current, e, initial, now))
  /\ proc' = "fg"
  /\ UNCHANGED <<side, ids, horizon, now, tzShift>>

\* AlarmService.scheduleAlarm called with a new AlarmData (enabled: true).
Schedule ==
  /\ proc = "fg"
  /\ \E id \in ids, d \in TimeChoices, rep \in BOOLEAN :
       \E e \in {Calm, [Calm EXCEPT !.armFail = {id}], [Calm EXCEPT !.saveFailAt = 1]} :
         Run("scheduleAlarm", id, FALSE, FALSE, e,
             scheduleAlarm(Current, e, AlarmData(id, now + d, TRUE, rep), now))
  /\ UNCHANGED <<side, ids, horizon, now, tzShift, proc>>

Cancel ==
  /\ proc = "fg"
  /\ \E id \in ids, e \in RemoveEnvs(Calm) :
       Run("cancelAlarm", id, FALSE, FALSE, e, cancelAlarm(Current, e, id))
  /\ UNCHANGED <<side, ids, horizon, now, tzShift, proc>>

Delete ==
  /\ proc = "fg"
  /\ \E id \in ids, e \in RemoveEnvs(Calm) :
       Run("deleteAlarm", id, FALSE, FALSE, e, deleteAlarm(Current, e, id))
  /\ UNCHANGED <<side, ids, horizon, now, tzShift, proc>>

Toggle ==
  /\ proc = "fg"
  /\ \E id \in ids :
       \/ \E e \in {Calm, [Calm EXCEPT !.armFail = {id}], [Calm EXCEPT !.saveFailAt = 1]} :
            Run("toggleOn", id, FALSE, FALSE, e, toggleAlarm(Current, e, id, TRUE, now))
       \/ \E e \in RemoveEnvs(Calm) \cup {[Calm EXCEPT !.saveFailAt = 2]} :
            Run("toggleOff", id, FALSE, FALSE, e, toggleAlarm(Current, e, id, FALSE, now))
  /\ UNCHANGED <<side, ids, horizon, now, tzShift, proc>>

\* A due trigger fires: the platform displays the notification and delivers
\* DELIVERED to the foreground handler when the app is in the foreground.
FireForeground ==
  /\ proc = "fg"
  /\ \E id \in DOMAIN triggers :
       /\ triggers[id].timestamp <= now
       /\ \E e1 \in BriefingEnvs(Calm) :
            \E e \in RemoveEnvs(e1) :
              Run("fgDelivered", id, FALSE, ~triggers[id].repeat, e,
                  onForegroundEvent(
                    Machine(alarms, storage, AfterFire(triggers, id, now),
                            shown \cup {id}, ttsInit),
                    e, "DELIVERED", id))
  /\ UNCHANGED <<side, ids, horizon, now, tzShift, proc>>

\* A due trigger fires while the app is not in the foreground: the platform
\* starts the process if it is not running and invokes the background handler.
FireBackground ==
  /\ proc # "fg"
  /\ \E id \in DOMAIN triggers :
       /\ triggers[id].timestamp <= now
       /\ \E e1 \in InitializeEnvs(Calm) :
            \E e2 \in IF e1.loadFail THEN VoiceEnvs(e1) ELSE BriefingEnvs(e1) :
              \E e \in IF e1.loadFail THEN {e2} ELSE RemoveEnvs(e2) :
                LET tr == AfterFire(triggers, id, now)
                    m == IF proc = "dead" THEN Fresh(tr, shown \cup {id})
                         ELSE Machine(alarms, storage, tr, shown \cup {id}, ttsInit)
                IN Run("bgDelivered", id, proc = "dead", ~triggers[id].repeat, e,
                       onBackgroundEvent(m, e, "DELIVERED", id, now))
  /\ proc' = IF proc = "dead" THEN "headless" ELSE proc
  /\ UNCHANGED <<side, ids, horizon, now, tzShift>>

\* The user presses a displayed notification.
Press ==
  /\ \E id \in shown :
       \E e \in IF proc = "fg" THEN {Calm, [Calm EXCEPT !.ttsFrom = 1]} ELSE {Calm} :
         Run(IF proc = "fg" THEN "fgPress" ELSE "bgPress", id, proc = "dead", FALSE, e,
             IF proc = "fg" THEN onForegroundEvent(Current, e, "PRESS", id)
             ELSE onBackgroundEvent(
                    IF proc = "dead" THEN Fresh(triggers, shown) ELSE Current,
                    e, "PRESS", id, now))
  /\ proc' = IF proc = "dead" THEN "headless" ELSE proc
  /\ UNCHANGED <<side, ids, horizon, now, tzShift>>

Next ==
  \/ Settle
  \/ Tick
  \/ Kill
  \/ ToBackground
  \/ ToForeground
  \/ AppStart
  \/ Schedule
  \/ Cancel
  \/ Delete
  \/ Toggle
  \/ FireForeground
  \/ FireBackground
  \/ Press

Spec == Init /\ [][Next]_vars

SpecTwo == InitTwo /\ [][Next]_vars

-----------------------------------------------------------------------------
(* speakAlmanac followed call by call *)

\* speakAlmanac up to the fan-out: the voice is initialized and the location
\* is asked for; on a location error the error utterance is spoken and the
\* function returns; otherwise the six provider calls are issued.
BriefingStart ==
  /\ brief.phase = "idle"
  /\ \E l \in BOOLEAN, o \in BriefingOutcomes :
       \E e \in NextCallEnvs(NoBriefing.m) :
         LET r1 == TtsInitialize(NoBriefing.m, e)
             r2 == IF r1.ok /\ ~l THEN TtsSpeak(r1.m, e, "locationError") ELSE r1
             b == [NoBriefing EXCEPT !.outcome = o, !.m = r2.m,
                     !.location = IF ~r1.ok THEN "notAsked" ELSE IF l THEN "fix" ELSE "error"]
         IN brief' = IF ~r2.ok THEN Caught(b, e)
                     ELSE IF ~l THEN [b EXCEPT !.phase = "done"]
                     ELSE [b EXCEPT !.phase = "waiting", !.requests = Providers]
  /\ UNCHANGED exceptBrief

\* The call of one provider answers: its promise settles.
ProviderSettles ==
  /\ brief.phase = "waiting"
  /\ \E p \in Providers :
       /\ brief.results[p] = Pending
       /\ brief.outcome[p] # "hang"
       /\ brief' = [brief EXCEPT !.results[p] = Settled(p, brief.outcome[p]),
                                 !.arrival = Append(@, p)]
  /\ UNCHANGED exceptBrief

\* Promise.allSettled resolves once every promise has settled: the speech is
\* composed and handed to TTSService.speak.
BriefingCompose ==
  /\ brief.phase = "waiting"
  /\ \A p \in Providers : brief.results[p] # Pending
  /\ \E e \in NextCallEnvs(brief.m) :
       LET r == TtsSpeak(brief.m, e, "narration")
           b == [brief EXCEPT !.speech = Compose(brief), !.m = r.m]
       IN brief' = IF r.ok THEN [b EXCEPT !.phase = "done"] ELSE Caught(b, e)
  /\ UNCHANGED exceptBrief

InitBriefing ==
  /\ ids = {"a1"}
  /\ horizon = 0
  /\ tzShift = DstShift
  /\ Start
  /\ Inputs("none")

NextBriefing ==
  \/ BriefingStart
  \/ ProviderSettles
  \/ BriefingCompose

SpecBriefing == InitBriefing /\ [][NextBriefing]_vars

-----------------------------------------------------------------------------
(* LocationService followed over time *)

\* A caller asks for the location; the platform grants the permission or not
\* and delivers a position, at most MaxFixAge old, or fails.
GetCurrentLocation ==
  /\ \E permission \in BOOLEAN,
        position \in {NoFix} \cup {Fix(now - d) : d \in 0..MaxFixAge} :
       /\ located' = getCurrentLocation(cachedLocation, now, permission, position)
       /\ cachedLocation' = located'.cache
  /\ UNCHANGED exceptLocation

\* The process ends: the cache, a field of the service object, is lost.
LocationKill ==
  /\ located # NotLocated
  /\ cachedLocation' = NoFix
  /\ located' = NotLocated
  /\ UNCHANGED exceptLocation

InitLocation ==
  /\ ids = {"a1"}
  /\ horizon = MaxLocTime
  /\ tzShift = DstShift
  /\ Start
  /\ Inputs("none")

NextLocation ==
  \/ Tick
  \/ GetCurrentLocation
  \/ LocationKill

SpecLocation == InitLocation /\ [][NextLocation]_vars

-----------------------------------------------------------------------------
(* TideService.calculateCurrentTide applied to a list of predictions *)

\* getTidePredictions calls calculateCurrentTide(allTides), which reads the
\* clock (new Date()) at some instant t.
CalculateCurrentTide ==
  /\ currentTide = NotCalculated
  /\ \E t \in 0..MaxTideTime : currentTide' = calculateCurrentTide(allTides, t)
  /\ UNCHANGED <<exceptTide, allTides, stations, predictions, tideEvents, tidesSpeech>>

InitTide ==
  /\ ids = {"a1"}
  /\ horizon = 0
  /\ tzShift = DstShift
  /\ Start
  /\ Inputs("allTides")
  /\ allTides \in PredictionLists

NextTide == CalculateCurrentTide

SpecTide == InitTide /\ [][NextTide]_vars

-----------------------------------------------------------------------------
(* TideService.getTidePredictions applied to the answers of the provider *)

\* getTidePredictions is called for a fix; the clock is read at its start and
\* again, not earlier, inside calculateCurrentTide.
GetTidePredictions ==
  /\ tideEvents = NoTideEvents
  /\ \E latitude \in 0..MaxLat, t \in 0..MaxTideTime :
       \E t2 \in t..MaxTideTime :
         /\ tideEvents' = getTidePredictions(stations, predictions, latitude, t, t2)
         /\ allTides' = IF predictions.ok
                          THEN [i \in 1..Len(predictions.predictions) |->
                                  Plain(TideEvent(predictions.predictions[i]))]
                        ELSE allTides
  /\ UNCHANGED <<exceptTide, currentTide, stations, predictions, tidesSpeech>>

\* speakAlmanac composes the tide section from the settled tide task.
TideSection ==
  /\ tideEvents # NoTideEvents
  /\ tidesSpeech = NotSpoken
  /\ tidesSpeech' = [called |-> TRUE, text |-> tideSection(tideEvents)]
  /\ UNCHANGED <<exceptTide, allTides, currentTide, stations, predictions, tideEvents>>

\* The predictions request is answered in every way; the catalog holds one
\* station.
InitPredictions ==
  /\ ids = {"a1"}
  /\ horizon = 0
  /\ tzShift = DstShift
  /\ Start
  /\ Inputs("predictions")
  /\ predictions \in PredictionsResponses

NextPredictions ==
  \/ GetTidePredictions
  \/ TideSection

SpecPredictions == InitPredictions /\ [][NextPredictions]_vars

\* The catalog request is answered in every way; the station found has no
\* predictions.
InitStation ==
  /\ ids = {"a1"}
  /\ horizon = 0
  /\ tzShift = DstShift
  /\ Start
  /\ Inputs("stations")
  /\ stations \in StationsResponses

NextStation ==
  \/ GetTidePredictions
  \/ TideSection

SpecStation == InitStation /\ [][NextStation]_vars

-----------------------------------------------------------------------------
(* SunTimesService.getSunTimes applied to what the geometry gives *)

\* getSunTimes is called at some minute of the day.
GetSunTimes ==
  /\ sunTimes = NoSunTimes
  /\ \E t \in 0..(HoursPerDay * MinutesPerHour - 1) : sunTimes' = getSunTimes(sunInput, t)
  /\ UNCHANGED <<exceptSun, sunInput>>

InitSun ==
  /\ ids = {"a1"}
  /\ horizon = 0
  /\ tzShift = DstShift
  /\ Start
  /\ Inputs("sun")
  /\ sunInput \in {i \in SunInputs : i.cosCivil <= i.cosSun}

NextSun == GetSunTimes

SpecSun == InitSun /\ [][NextSun]_vars

-----------------------------------------------------------------------------
(* speakAlmanac choosing the greeting from the local hour *)

\* const hour = now.getHours(); const greeting = getGreeting(hour);
Greet ==
  /\ greeting = NotGreeted
  /\ greeting' = [said |-> TRUE, hour |-> getHours(greetClock),
                  text |-> getGreeting(getHours(greetClock))]
  /\ UNCHANGED <<exceptGreet, greetClock>>

InitGreeting ==
  /\ ids = {"a1"}
  /\ horizon = 0
  /\ tzShift = DstShift
  /\ Start
  /\ Inputs("greeting")
  /\ greetClock \in 0..(HoursInDay * TicksPerHour - 1)

NextGreeting == Greet

SpecGreeting == InitGreeting /\ [][NextGreeting]_vars

-----------------------------------------------------------------------------
(* TTSService called on its own: initialize and speak in any order *)

\* The record of a call: isInitialized before it, whether the first engine
\* call of the run resolved, the outcome, the engine calls made, the texts
\* the engine has spoken in this call and all it has spoken so far.
VoiceCall(op, text, e, r) ==
  [calls |-> voice.calls + 1, op |-> op, before |-> ttsInit,
   firstOk |-> EngineOk(e, 1), ok |-> r.ok, ncalls |-> r.m.ncalls,
   text |-> text, said |-> r.m.said, heard |-> voice.heard \o r.m.said]

VoiceInitialize ==
  /\ voice.calls < MaxVoiceCalls
  /\ \E e \in VoiceEnvs(Calm) :
       LET r == TtsInitialize(Current, e)
       IN /\ ttsInit' = r.m.ttsInit
          /\ voice' = VoiceCall("initialize", "none", e, r)
  /\ UNCHANGED <<exceptVoice, ids, horizon, now, tzShift, proc, alarms, storage, triggers, shown, faulty, ev>>

VoiceSpeak ==
  /\ voice.calls < MaxVoiceCalls
  /\ \E e \in VoiceEnvs(Calm), text \in VoiceTexts :
       LET r == TtsSpeak(Current, e, text)
       IN /\ ttsInit' = r.m.ttsInit
          /\ voice' = VoiceCall("speak", text, e, r)
  /\ UNCHANGED <<exceptVoice, ids, horizon, now, tzShift, proc, alarms, storage, triggers, shown, faulty, ev>>

InitVoice ==
  /\ ids = {"a1"}
  /\ horizon = 0
  /\ tzShift = DstShift
  /\ Start
  /\ Inputs("none")

NextVoice == VoiceInitialize \/ VoiceSpeak

SpecVoice == InitVoice /\ [][NextVoice]_vars

-----------------------------------------------------------------------------
(* AlarmService.initialize and a scheduleAlarm of the UI, await by await *)

\* What an earlier session of the app left in storage and in the platform's
\* trigger store: no alarm, or the alarm a1, enabled or not, alone or with
\* an enabled alarm a2.
EarlierSession ==
  /\ proc = "dead"
  /\ race = NoRace
  /\ \E left \in {EmptyMap} \cup
                 {MapSet(rest, "a1", AlarmData("a1", now + 1, en, rep)) :
                    en \in BOOLEAN, rep \in BOOLEAN,
                    rest \in {EmptyMap, MapSet(EmptyMap, "a2", AlarmData("a2", now + 1, TRUE, FALSE))}} :
       /\ storage' = [written |-> TRUE, json |-> Stringify(left)]
       /\ triggers' = TriggersOf(left, now)
  /\ race' = [race EXCEPT !.earlier = TRUE]
  /\ UNCHANGED <<exceptRace, ids, horizon, now, tzShift, proc, alarms, shown, ttsInit, faulty, ev>>

\* The app is opened: App mounts, its effect starts initializeServices, which
\* reaches AlarmService.initialize after the voice and the permission
\* requests, and the screens are shown.
AppMount ==
  /\ proc = "dead"
  /\ proc' = "fg"
  /\ UNCHANGED <<side, ids, horizon, now, tzShift, alarms, storage, triggers, shown, ttsInit, faulty, ev>>

\* loadAlarms: AsyncStorage.getItem reads the item.
LoadRead ==
  /\ proc = "fg"
  /\ race.init.pc = "idle"
  /\ race' = [race EXCEPT !.init.pc = "read", !.init.stored = storage]
  /\ UNCHANGED <<exceptRace, ids, horizon, now, tzShift, proc, alarms, storage, triggers, shown, ttsInit, faulty, ev>>

\* loadAlarms resumes with the item: if (stored) the Map is cleared and
\* refilled from it; initialize then takes the array of the Map's alarms.
LoadFill ==
  /\ race.init.pc = "read"
  /\ alarms' = IF race.init.stored.written THEN Parse(race.init.stored.json) ELSE alarms
  /\ LET todo == [x \in {y \in DOMAIN alarms' : alarms'[y].enabled} |-> alarms'[x]]
     IN race' = [race EXCEPT !.init.pc = IF DOMAIN todo = {} THEN "done" ELSE "rearm",
                             !.init.todo = todo]
  /\ UNCHANGED <<exceptRace, ids, horizon, now, tzShift, proc, storage, triggers, shown, ttsInit, faulty, ev>>

\* One turn of the re-schedule loop: scheduleAlarmWithoutSaving arms the next
\* enabled alarm of the array.
Rearm ==
  /\ race.init.pc = "rearm"
  /\ \E id \in DOMAIN race.init.todo :
       LET alarm == race.init.todo[id]
           rest == MapDelete(race.init.todo, id)
       IN /\ triggers' = MapSet(triggers, id,
                                [timestamp |-> ArmTime(alarm.time, now), repeat |-> alarm.repeat])
          /\ race' = [race EXCEPT !.init.todo = rest,
                                  !.init.pc = IF DOMAIN rest = {} THEN "done" ELSE "rearm"]
  /\ UNCHANGED <<exceptRace, ids, horizon, now, tzShift, proc, alarms, storage, shown, ttsInit, faulty, ev>>

\* scheduleAlarm of a new alarm: createTriggerNotification arms the trigger,
\* or rejects and scheduleAlarm throws.
ScheduleArm ==
  /\ proc = "fg"
  /\ race.sched.pc = "idle"
  /\ \E id \in ids, rep \in BOOLEAN, ok \in BOOLEAN :
       LET alarm == AlarmData(id, ArmTime(now + 1, now), TRUE, rep)
       IN /\ triggers' = IF ok THEN MapSet(triggers, id, [timestamp |-> alarm.time, repeat |-> rep])
                         ELSE triggers
          /\ race' = [race EXCEPT !.sched.pc = IF ok THEN "armed" ELSE "failed",
                                  !.sched.alarm = alarm]
  /\ UNCHANGED <<exceptRace, ids, horizon, now, tzShift, proc, alarms, storage, shown, ttsInit, faulty, ev>>

\* scheduleAlarm resumes: this.alarms.set(alarm.id, alarm), and saveAlarms
\* builds the JSON of the Map as it is now.
ScheduleSet ==
  /\ race.sched.pc = "armed"
  /\ alarms' = MapSet(alarms, race.sched.alarm.id, race.sched.alarm)
  /\ race' = [race EXCEPT !.sched.pc = "saving", !.sched.payload = Stringify(alarms')]
  /\ UNCHANGED <<exceptRace, ids, horizon, now, tzShift, proc, storage, triggers, shown, ttsInit, faulty, ev>>

\* AsyncStorage.setItem writes the JSON and scheduleAlarm returns, or it
\* rejects and scheduleAlarm throws.
ScheduleWrite ==
  /\ race.sched.pc = "saving"
  /\ \E ok \in BOOLEAN :
       /\ storage' = IF ok THEN [written |-> TRUE, json |-> race.sched.payload] ELSE storage
       /\ race' = [race EXCEPT !.sched.pc = IF ok THEN "done" ELSE "failed"]
  /\ UNCHANGED <<exceptRace, ids, horizon, now, tzShift, proc, alarms, triggers, shown, ttsInit, faulty, ev>>

\* deleteAlarm of a listed alarm: cancelNotification removes its trigger, or
\* rejects and cancelAlarm throws.
CancelNotify ==
  /\ proc = "fg"
  /\ race.cancel.pc = "idle"
  /\ \E id \in DOMAIN alarms, ok \in BOOLEAN :
       /\ triggers' = IF ok THEN MapDelete(triggers, id) ELSE triggers
       /\ race' = [race EXCEPT !.cancel.pc = IF ok THEN "cancelled" ELSE "failed",
                               !.cancel.id = id]
  /\ UNCHANGED <<exceptRace, ids, horizon, now, tzShift, proc, alarms, storage, shown, ttsInit, faulty, ev>>

\* cancelAlarm resumes: this.alarms.delete(alarmId), and saveAlarms builds the
\* JSON of the Map as it is now.
CancelDelete ==
  /\ race.cancel.pc = "cancelled"
  /\ alarms' = MapDelete(alarms, race.cancel.id)
  /\ race' = [race EXCEPT !.cancel.pc = "saving", !.cancel.payload = Stringify(alarms')]
  /\ UNCHANGED <<exceptRace, ids, horizon, now, tzShift, proc, storage, triggers, shown, ttsInit, faulty, ev>>

\* AsyncStorage.setItem writes the JSON and cancelAlarm returns, or it rejects
\* and cancelAlarm throws.
CancelWrite ==
  /\ race.cancel.pc = "saving"
  /\ \E ok \in BOOLEAN :
       /\ storage' = IF ok THEN [written |-> TRUE, json |-> race.cancel.payload] ELSE storage
       /\ race' = [race EXCEPT !.cancel.pc = IF ok THEN "done" ELSE "failed"]
  /\ UNCHANGED <<exceptRace, ids, horizon, now, tzShift, proc, alarms, triggers, shown, ttsInit, faulty, ev>>

InitRace ==
  /\ ids = Ids
  /\ horizon = 0
  /\ tzShift = DstShift
  /\ Start
  /\ Inputs("none")

NextRace ==
  \/ EarlierSession
  \/ AppMount
  \/ LoadRead
  \/ LoadFill
  \/ Rearm
  \/ ScheduleArm
  \/ ScheduleSet
  \/ ScheduleWrite

SpecRace == InitRace /\ [][NextRace]_vars

\* initialize with a deleteAlarm of the UI running beside it.
NextRaceCancel ==
  \/ EarlierSession
  \/ AppMount
  \/ LoadRead
  \/ LoadFill
  \/ Rearm
  \/ CancelNotify
  \/ CancelDelete
  \/ CancelWrite

SpecRaceCancel == InitRace /\ [][NextRaceCancel]_vars

-----------------------------------------------------------------------------
(* Overlapping calls of TTSService.initialize and speak, await by await *)

\* A caller calls initialize() or speak(text); the call runs up to its first
\* await.
TtsCall ==
  /\ proc = "fg"
  /\ \E c \in Callers, op \in {"initialize", "speak"} :
       /\ callers[c].pc = "idle"
       /\ callers' = [callers EXCEPT ![c] =
            [op |-> op,
             pc |-> IF op = "speak" THEN SpeakEnter(ttsInit) ELSE InitializeEnter(ttsInit)]]
  /\ UNCHANGED <<exceptCallers, app>>

\* The engine call a caller awaits resolves, and the caller runs on to its
\* next await: initialize issues its next engine call or sets isInitialized
\* and returns, after which speak issues Tts.speak.
TtsResolve ==
  /\ \E c \in Callers, hasVoice \in BOOLEAN :
       LET at == callers[c].pc
           next == AfterEngineCall(at, hasVoice)
       IN /\ at \notin {"idle", "returned", "thrown"}
          /\ ttsInit' = (ttsInit \/ next = "configured")
          /\ callers' = [callers EXCEPT ![c].pc =
               IF next # "configured" THEN next
               ELSE IF callers[c].op = "speak" THEN "speak" ELSE "returned"]
  /\ UNCHANGED <<exceptCallers, ids, horizon, now, tzShift, proc, alarms, storage, triggers, shown, faulty, ev>>

\* The engine call a caller awaits rejects: the catch block rethrows.
TtsReject ==
  /\ \E c \in Callers :
       /\ callers[c].pc \notin {"idle", "returned", "thrown"}
       /\ callers' = [callers EXCEPT ![c].pc = "thrown"]
  /\ UNCHANGED <<exceptCallers, app>>

InitCallers ==
  /\ ids = {"a1"}
  /\ horizon = 0
  /\ tzShift = DstShift
  /\ Start
  /\ Inputs("none")

NextCallers == AppMount \/ TtsCall \/ TtsResolve \/ TtsReject

SpecCallers == InitCallers /\ [][NextCallers]_vars


\* ---------------------------------------------------------------------------
\* Properties.  ArmCmds(run) are the arm commands a handler run has sent to
\* the platform and Arms(run) those the platform accepted; a command records the instant it asked for (ts), the
\* repeat flag (rep), the alarm time the service was given (given) and whether
\* the store held a trigger of that id when the command arrived (had).
\* ---------------------------------------------------------------------------

ArmCmds(run) == {c \in run.cmds : c.k = "arm"}
Arms(run) == {c \in ArmCmds(run) : c.ok}
Cancels(run) == {c \in run.cmds : c.k = "cancel" /\ c.ok}

\* C1: whenever a trigger is armed (scheduleAlarm, toggleAlarm(id, true), the
\* re-arm pass of initialize), the armed timestamp is strictly later than the
\* current time, whatever the alarm time was.
C1_ArmedInFuture == \A c \in ArmCmds(ev) : c.ts > now

\* C2 as stated: an alarm time at or before now is armed at exactly that time
\* plus one day of 24 hours; a time after now is armed at exactly that time.
C2_PlusTwentyFourHours ==
  \A c \in ArmCmds(ev) : c.ts = IF c.given <= now THEN c.given + Day ELSE c.given

\* C2 amended: an alarm time at or before now is moved once to the same local
\* wall-clock time on the next calendar day, which is the time plus 24 hours
\* when the zone offset is the same at both instants and otherwise differs
\* from it by at most the offset change; a time after now is armed unchanged.
C2_NextCalendarDay ==
  \A c \in ArmCmds(ev) :
    IF c.given > now THEN c.ts = c.given
    ELSE /\ c.ts - c.given \in {Day, Day - (Offset(c.ts) - Offset(c.given))}
         /\ Offset(c.given) = Offset(c.given + Day) => c.ts = c.given + Day
         /\ LocalTime(c.ts) \in {LocalTime(c.given) + Day, LocalTime(c.given) + Day + tzShift}

C2_Witness ==
  \E c \in Arms(ev) :
    c.given <= now /\ Offset(c.given) # Offset(c.given + Day) /\ c.ts # c.given + Day

\* C3: the store holds at most one trigger per alarm id: an accepted arm
\* command for an id replaces what the store held for it, so that the store
\* then holds the instant and the repeat flag of that command (until the same
\* run cancels the id), a run arms an id at most once, and the command's repeat
\* flag is the alarm's, a repeating alarm being armed with the daily cadence.
C3_RearmReplaces ==
  \A c \in Arms(ev) :
    /\ \A d \in Arms(ev) : d.id = c.id => d = c
    /\ c.id \in DOMAIN alarms => c.rep = alarms[c.id].repeat
    /\ (\A x \in Cancels(ev) : x.id # c.id) =>
         /\ c.id \in DOMAIN triggers
         /\ triggers[c.id] = [timestamp |-> c.ts, repeat |-> c.rep]

C3_Witness ==
  \E c \in Arms(ev) :
    /\ c.had /\ c.rep
    /\ ev.op \in {"scheduleAlarm", "appStart"}
    /\ triggers[c.id] = [timestamp |-> c.ts, repeat |-> TRUE]

C5_OneShotGone ==
  (ev.op = "bgDelivered" /\ ev.oneShot) =>
    /\ ev.id \notin DOMAIN triggers
    /\ ev.id \notin DOMAIN getAllAlarms(Current)
    /\ ev.id \notin DOMAIN storage.json

\* C6: the dispatch of the firing of a repeating alarm leaves the alarm armed
\* and listed, and sends the platform no arm and no cancel command for its id.
C6_RepeatingUntouched ==
  (ev.op \in {"bgDelivered", "fgDelivered"} /\ ~ev.oneShot) =>
    /\ ev.id \in DOMAIN triggers
    /\ ev.id \in DOMAIN getAllAlarms(Current)
    /\ \A c \in ev.cmds : c.id # ev.id

\* C7: when scheduleAlarm returns an error, the call has left no trigger armed.
C7_FailedScheduleArmsNothing ==
  (ev.op = "scheduleAlarm" /\ ~ev.ok) => Arms(ev) = {}

Same(f, g, id) == (id \in DOMAIN f <=> id \in DOMAIN g) /\ (id \in DOMAIN f => f[id] = g[id])

AllSteps == <<"voiceInit", "alarmInit", "briefing", "resolve">>

\* C9: a background dispatch in which the initialization of the alarm service
\* does not fail enters every step, whichever of its steps fail.
C9_LaterStepsRun ==
  (ev.op = "bgDelivered" /\ "alarmInit" \notin ev.failed) => ev.steps = AllSteps

\* C10: a background dispatch in which the initialization of the alarm service
\* fails attempts the one utterance that reports it and stops: it enters
\* neither the briefing nor the resolution, sends the platform no command, and
\* leaves the in-memory records, the persisted records and (but for the
\* platform's own handling of the firing) the triggers as they were.
C10_InitFailureAborts ==
  [][(ev'.op = "bgDelivered" /\ "alarmInit" \in ev'.failed) =>
      /\ ev'.steps = <<"voiceInit", "alarmInit">>
      /\ ev'.tried # <<>> /\ ev'.tried[Len(ev'.tried)] = "alarmInitFailed"
      /\ Cardinality({i \in 1..Len(ev'.tried) : ev'.tried[i] = "alarmInitFailed"}) = 1
      /\ ev'.cmds = {}
      /\ alarms' = alarms /\ storage' = storage
      /\ triggers' = AfterFire(triggers, ev'.id, now)]_vars

C10_Witness ==
  /\ ev.op = "bgDelivered" /\ "alarmInit" \in ev.failed
  /\ "alarmInitFailed" \in {ev.said[i] : i \in 1..Len(ev.said)}
  /\ ev.id \in DOMAIN storage.json

IsPrefix(s, t) == Len(s) <= Len(t) /\ \A i \in 1..Len(s) : s[i] = t[i]

Texts(q) == {q[i] : i \in 1..Len(q)}

\* C11: a background dispatch enters its steps in the order voice init,
\* alarm-service init, briefing, resolution, none skipped and none twice; it
\* enters the briefing only after the alarm service has initialized without
\* error, and the resolution only after the briefing step; and the only alarm
\* it cancels is the one whose id the event carries.
C11_StrictOrder ==
  ev.op = "bgDelivered" =>
    /\ IsPrefix(ev.steps, AllSteps)
    /\ "briefing" \in Texts(ev.steps) => "alarmInit" \notin ev.failed
    /\ \A c \in ev.cmds : c.k = "cancel" => c.id = ev.id

C11_Witness ==
  /\ ev.op = "bgDelivered" /\ ev.steps = AllSteps
  /\ Cancels(ev) # {}
  /\ DOMAIN alarms # {}

\* The resolution of a fired alarm failed in the run: the platform rejected
\* the cancel, or storage rejected the write of the list.
ResolveFailed(run) ==
  "setItem" \in run.failed \/ \E c \in run.cmds : c.k = "cancel" /\ ~c.ok

\* C12: when the resolution of the fired alarm fails after the briefing, the
\* handler still returns without error, nothing is handed to the voice engine
\* for it: every utterance of the run belongs to an earlier step.
C12_ResolveFailureLogged ==
  (ev.op \in {"bgDelivered", "fgDelivered"} /\ ResolveFailed(ev)) =>
    /\ ev.ok
    /\ ev.op = "bgDelivered" => (ev.steps = AllSteps /\ "resolve" \in ev.failed)
    /\ Texts(ev.tried) \subseteq
         {"handlerCalled", "ttsFailed", "narration", "locationError", "almanacError"}

C12_Witness ==
  /\ ev.op = "bgDelivered" /\ ResolveFailed(ev)
  /\ "narration" \in Texts(ev.said)
  /\ ev.id \in DOMAIN storage.json

\* The providers whose sections the narration q holds.
Spoken(q) == {q[i].of : i \in 1..Len(q)} \ {"greeting"}

\* The fan-out of the briefing has resolved and the narration was composed.
Composed == brief.phase = "done" /\ brief.speech # <<>>

\* C13: whichever providers fail, speakAlmanac does not raise on their
\* account, and the narration holds exactly the sections of the providers
\* that delivered data, each built from delivered data: a failed provider
\* contributes no sentence and no made-up value.
C13_OnlySucceededSections ==
  Composed =>
    /\ brief.raised => brief.m.said # brief.m.tried
    /\ Spoken(brief.speech) = {p \in Providers : brief.outcome[p] = "ok"}
    /\ \A i \in 1..Len(brief.speech) : brief.speech[i].value = "data"

\* The place of a section's category in the narration.
Place(c) ==
  CHOOSE i \in 1..7 :
    <<"greeting", "city", "weather", "sun", "tides", "air", "verse">>[i] = c

\* C14: in whatever order the provider calls answer, the sections present in
\* the narration stand in the order greeting, location label, weather, sun
\* times, tide summary, air quality, verse: each by its category, none by the
\* time its provider answered.
C14_FixedSectionOrder ==
  Composed =>
    \A i, j \in 1..Len(brief.speech) :
      i < j => Place(brief.speech[i].of) < Place(brief.speech[j].of)

\* Every provider delivered, the verse first and the location label last.
C14_Witness ==
  /\ Composed
  /\ Len(brief.speech) = 7
  /\ brief.arrival[1] = "verse"
  /\ brief.arrival[6] = "city"
  /\ brief.m.said = <<"narration">>

\* C15: when the location fix cannot be obtained in a background dispatch, the
\* briefing is aborted (no narration is composed, the error utterance is
\* handed to the voice) and the fired-alarm resolution still runs afterwards.
C15_LocationFailureAborts ==
  (ev.op = "bgDelivered" /\ "location" \in ev.failed) =>
    /\ "locationError" \in Texts(ev.tried)
    /\ "narration" \notin Texts(ev.tried)
    /\ "resolve" \in Texts(ev.steps)

\* The provider calls of the briefing that have not answered.
Unanswered == {p \in Providers : brief.results[p] = Pending}

\* C16: every provider call is bounded by a timeout, so a briefing reaches a
\* terminal state even when a provider never answers: it is never left
\* waiting on calls that will neither answer nor be timed out.
C16_NeverStalled ==
  brief.phase = "waiting" =>
    \/ Unanswered = {}
    \/ \E p \in Unanswered : brief.outcome[p] # "hang"

\* C17: getCurrentLocation never returns a cached fix older than
\* CACHE_MAX_AGE: without a fresh fix it returns the cached fix exactly when
\* one exists and has not expired, and a location error otherwise; a fresh
\* fix is returned and is the cached fix from then on.
C17_CachedFixUnexpired ==
  /\ located.kind = "fresh" <=> located.fresh
  /\ located.kind = "fresh" => (located.fix.known /\ cachedLocation = located.fix)
  /\ located.kind = "cached" =>
       /\ located.had.known /\ located.fix = located.had
       /\ located.at - located.fix.timestamp <= CACHE_MAX_AGE
  /\ located.kind = "error" =>
       \/ ~located.had.known
       \/ located.at - located.had.timestamp > CACHE_MAX_AGE

\* A call without a fresh fix met an expired cache entry and returned an error.
C17_Witness ==
  /\ located.kind = "error"
  /\ located.had.known
  /\ cachedLocation = located.had

\* The predictions of allTides.
Events == {allTides[i] : i \in 1..Len(allTides)}

\* C18: a Current event is synthesized only when some prediction is at or
\* before the instant of the calculation and some prediction is after it;
\* from an empty list, or a list wholly before or wholly after that instant,
\* none is produced.
C18_NoExtrapolation ==
  currentTide.kind = "C" =>
    /\ \E b \in Events : AtOrBefore(b.time, currentTide.at)
    /\ \E a \in Events : After(a.time, currentTide.at)

\* A Current event was synthesized from a full list.
C18_Witness ==
  /\ currentTide.kind = "C"
  /\ Len(allTides) = MaxTides
  /\ currentTide.beforeTide.time < currentTide.at

\* C19: whenever a Current event is synthesized from the events (t0, h0) and
\* (t1, h1), t0 <= now <= t1 and t0 < t1 hold and its height lies between
\* min(h0, h1) and max(h0, h1), whatever the order of the list and whether or
\* not it holds events with equal times.
C19_Bracketed ==
  currentTide.kind = "C" =>
    LET b == currentTide.beforeTide
        a == currentTide.afterTide
        lo == IF b.height <= a.height THEN b.height ELSE a.height
        hi == IF b.height <= a.height THEN a.height ELSE b.height
    IN /\ b \in Events /\ a \in Events
       /\ b.time # NaT /\ a.time # NaT
       /\ b.time <= currentTide.at /\ currentTide.at <= a.time
       /\ b.time < a.time
       /\ currentTide.height.den = a.time - b.time
       /\ lo * currentTide.height.den <= currentTide.height.num
       /\ currentTide.height.num <= hi * currentTide.height.den

\* A Current event strictly inside its bracket, synthesized from a list that
\* is not in time order and holds two events with the same time.
C19_Witness ==
  /\ currentTide.kind = "C"
  /\ currentTide.beforeTide.time < currentTide.at
  /\ currentTide.beforeTide.height # currentTide.afterTide.height
  /\ \E i, j \in 1..Len(allTides) : i < j /\ allTides[i].time > allTides[j].time
  /\ \E i, j \in 1..Len(allTides) : i # j /\ allTides[i].time = allTides[j].time

\* b is a prediction at or before t that no prediction at or before t follows.
NearestAtOrBefore(b, t) ==
  /\ b \in Events /\ AtOrBefore(b.time, t)
  /\ \A x \in Events : AtOrBefore(x.time, t) => x.time <= b.time

\* a is a prediction after t that no prediction after t precedes.
NearestAfter(a, t) ==
  /\ a \in Events /\ After(a.time, t)
  /\ \A x \in Events : After(x.time, t) => a.time <= x.time

\* C20: the height of the Current event is h0 + (h1 - h0) * (now - t0) /
\* (t1 - t0) for (t0, h0) the nearest prediction at or before now and
\* (t1, h1) the nearest prediction after now.
C20_NearestBracket ==
  currentTide.kind = "C" =>
    \E b, a \in Events :
      /\ NearestAtOrBefore(b, currentTide.at)
      /\ NearestAfter(a, currentTide.at)
      /\ currentTide.height.num * (a.time - b.time)
           = (b.height * (a.time - b.time)
                + (a.height - b.height) * (currentTide.at - b.time))
               * currentTide.height.den

\* C21: the sequence returned by getTidePredictions holds at most one Current
\* event, which is then its first element; every other element is a High or
\* Low event with time in [now, now + 24 h], and these stand in ascending
\* order of time.
C21_SequenceShape ==
  tideEvents.kind = "ok" =>
    LET q == tideEvents.events
    IN /\ \A i \in 1..Len(q) : q[i].type = "C" => i = 1
       /\ \A i \in 1..Len(q) :
            q[i].type # "C" =>
              /\ q[i].type \in {"H", "L"}
              /\ tideEvents.from <= q[i].time
              /\ q[i].time <= tideEvents.from + TideDay
       /\ \A i, j \in 1..Len(q) :
            (i < j /\ q[i].type # "C") => q[i].time <= q[j].time

\* The distance of the i-th station of the catalog from the fix of the call.
DistanceOf(i) == calculateDistance(tideEvents.latitude, stations.stations[i].lat)

\* C22: findNearestStation returns a station at the least distance from the
\* fix over the whole catalog, the first such station in catalog order; when
\* the catalog is empty or cannot be fetched it returns none, and
\* getTidePredictions then fails with the no-station error.
C22_NearestStation ==
  tideEvents.kind # "none" =>
    LET found == tideEvents.station
        n == Len(stations.stations)
    IN /\ found.known =>
            \E i \in 1..n :
              /\ stations.stations[i].id = found.id
              /\ DistanceOf(i) = found.distance /\ found.distance # NaN
              /\ \A j \in 1..n : DistanceOf(j) # NaN => found.distance <= DistanceOf(j)
              /\ \A j \in 1..(i - 1) : DistanceOf(j) # found.distance
       /\ found.known <=> \E i \in 1..n : DistanceOf(i) # NaN
       /\ (~stations.ok \/ n = 0) => ~found.known
       /\ ~found.known <=> (tideEvents.kind = "error" /\ tideEvents.error = "noStation")

\* Two stations share the least distance; the catalog begins with a farther one.
C22_Witness ==
  /\ tideEvents.station.known
  /\ Len(stations.stations) = MaxStations
  /\ tideEvents.station.id = 2
  /\ DistanceOf(3) = tideEvents.station.distance
  /\ DistanceOf(1) # NaN

\* The sentences of the tide summary that name a thing of kind k.
Saying(k) == {i \in 1..Len(tidesSpeech.text) : tidesSpeech.text[i].say = k}

\* The High and Low events of the returned sequence.
Upcoming == {e \in Texts(tideEvents.events) : e.type # "C"}

\* C28: the tide summary states the current height exactly when the sequence
\* holds a Current event, and then exactly one upcoming extreme, the earliest
\* High or Low event at or after now, with its kind, time and height; when
\* the tide task failed or returned no events there is no tide text at all.
\* Now is the instant read at the start of getTidePredictions or the one
\* read by calculateCurrentTide.
C28_TideSummary ==
  tidesSpeech.called =>
    LET q == tideEvents.events
        text == tidesSpeech.text
    IN /\ (tideEvents.kind = "error" \/ q = <<>>) => text = <<>>
       /\ \A i \in 1..Len(text) : text[i].say \in {"current", "next"}
       /\ Saying("current") # {} <=> \E e \in Texts(q) : e.type = "C"
       /\ \A i \in Saying("current") : i = 1 /\ text[i].feet = toFixed1(q[1].height)
       /\ Saying("next") # {} <=> Upcoming # {}
       /\ \A i \in Saying("next") :
            /\ i = Len(text)
            /\ \E e \in Upcoming, t \in {tideEvents.from, tideEvents.at} :
                 /\ t <= e.time
                 /\ \A x \in Upcoming : t <= x.time => e.time <= x.time
                 /\ text[i].type = e.type
                 /\ text[i].at = formatTime(e.time)
                 /\ text[i].feet = toFixed1(e.height)


\* cosHourAngle lies outside [-1, 1].
Polar(c) == c > CosScale \/ c < 0 - CosScale

\* C23: each of sunrise, sunset, dawn and dusk is undefined exactly when the
\* cosHourAngle computed for it lies outside [-1, 1], and a defined instant
\* otherwise; an event that does not occur is not given a substituted time.
C23_UndefinedWhenPolar ==
  sunTimes.called =>
    /\ sunTimes.sunrise.computed <=> ~Polar(sunInput.cosSun)
    /\ sunTimes.sunset.computed <=> ~Polar(sunInput.cosSun)
    /\ sunTimes.dawn.computed <=> ~Polar(sunInput.cosCivil)
    /\ sunTimes.dusk.computed <=> ~Polar(sunInput.cosCivil)
    /\ \A k \in {"sunrise", "sunset", "dawn", "dusk"} :
         ~sunTimes[k].computed => sunTimes[k] = [computed |-> FALSE, minute |-> 0]

\* C24: whenever sunrise and sunset are both defined, the computed sunset is
\* strictly later than the computed sunrise, for every hour angle from 0 to
\* 180 degrees and every solar noon, within the day or outside it.
C24_SunsetAfterSunrise ==
  (sunTimes.called /\ sunTimes.sunrise.computed /\ sunTimes.sunset.computed) =>
    sunTimes.sunrise.minute < sunTimes.sunset.minute


\* C25: for every local hour the greeting is "Good morning" from 5 to 11,
\* "Good afternoon" from 12 to 16, "Good evening" from 17 to 20 and "Good
\* night" otherwise; each hour has exactly one greeting.
C25_GreetingByHour ==
  greeting.said =>
    /\ greeting.hour = getHours(greetClock)
    /\ (greeting.text = "Good morning") <=> (5 <= greeting.hour /\ greeting.hour <= 11)
    /\ (greeting.text = "Good afternoon") <=> (12 <= greeting.hour /\ greeting.hour <= 16)
    /\ (greeting.text = "Good evening") <=> (17 <= greeting.hour /\ greeting.hour <= 20)
    /\ (greeting.text = "Good night") <=> (greeting.hour < 5 \/ greeting.hour > 20)

\* The greeting of the last instant of the hour before noon.
C25_Witness ==
  /\ greeting.said
  /\ greetClock = 12 * TicksPerHour - 1
  /\ greeting.text = "Good morning"


\* C26: speak on an uninitialized service first initializes and then speaks;
\* the service is marked initialized only when the initialization succeeded,
\* so a failed initialization makes speak fail without speaking and leaves
\* the next speak or initialize to try again; initialize on an initialized
\* service does nothing.
C26_LazyInit ==
  /\ (voice.op # "none" /\ ~voice.before) =>
       /\ voice.ncalls >= 1
       /\ ttsInit <=> voice.firstOk
       /\ ~voice.firstOk => (~voice.ok /\ voice.ncalls = 1 /\ voice.said = <<>>)
  /\ (voice.op = "speak" /\ ~voice.before /\ voice.firstOk) =>
       /\ voice.ncalls = 2
       /\ voice.ok <=> voice.said = <<voice.text>>
       /\ ~voice.ok => voice.said = <<>>
  /\ (voice.op = "speak" /\ voice.before) =>
       /\ ttsInit
       /\ voice.ncalls = 1
       /\ voice.ok <=> voice.said = <<voice.text>>
  /\ (voice.op = "initialize" /\ voice.before) =>
       (ttsInit /\ voice.ok /\ voice.ncalls = 0 /\ voice.said = <<>>)

\* A speak on a service whose earlier initialization had failed initializes
\* it and speaks.
C26_Witness ==
  /\ voice.calls >= 2
  /\ voice.op = "speak"
  /\ ~voice.before
  /\ voice.ok
  /\ ttsInit
  /\ voice.said = <<voice.text>>


\* C27: the dispatch of the firing of a non-repeating alarm, the service
\* initialization it performs included, arms no trigger for the fired id, and
\* the id is not armed when the dispatch ends, whether or not the resolution
\* step ran.
C27_FiredOneShotNotRearmed ==
  (ev.op \in {"bgDelivered", "fgDelivered"} /\ ev.oneShot) =>
    /\ \A c \in Arms(ev) : c.id # ev.id
    /\ ev.id \notin DOMAIN triggers


\* C29: the location cache changes only in a resolution that obtained a fresh
\* fix, which becomes the cached fix; a resolution that failed, was denied the
\* permission or was answered from the cache leaves it as it was, and so does
\* every other step, as long as the process that holds the cache lives.
C29_CacheWrittenByFreshFix ==
  [][/\ cachedLocation' # cachedLocation =>
          \/ located'.kind = "fresh" /\ located'.fresh /\ cachedLocation' = located'.fix
          \/ located' = NotLocated /\ cachedLocation' = NoFix
     /\ located'.kind \in {"cached", "error"} =>
          (cachedLocation' = located'.had /\ (located' # located => located'.had = cachedLocation))
     /\ located'.kind = "fresh" => cachedLocation' = located'.fix]_vars

\* A resolution without a fresh fix met an expired cache entry, returned an
\* error and left the entry in the cache.
C29_Witness ==
  /\ located.kind = "error"
  /\ ~located.fresh
  /\ located.had.known
  /\ located.at - located.had.timestamp > CACHE_MAX_AGE
  /\ cachedLocation = located.had


\* C30: however the steps of initialize and of a concurrent scheduleAlarm are
\* interleaved, once both have completed an alarm whose scheduleAlarm returned
\* successfully is in getAllAlarms and in the persisted storage, and every
\* armed trigger has an alarm record.
C30_ScheduledSurvivesLoad ==
  (race.init.pc = "done" /\ race.sched.pc = "done") =>
    /\ race.sched.alarm.id \in DOMAIN getAllAlarms(Current)
    /\ race.sched.alarm.id \in DOMAIN storage.json
    /\ DOMAIN triggers \subseteq DOMAIN getAllAlarms(Current)


\* C31: once deleteAlarm or cancelAlarm of an id has returned successfully,
\* the id has no live trigger in any later state (no scheduleAlarm follows
\* here), however the steps of a concurrent initialize are interleaved.
C31_CancelledStaysCancelled ==
  race.cancel.pc = "done" => race.cancel.id \notin DOMAIN triggers


C33_DisabledHasNoTrigger ==
  /\ [](\A id \in DOMAIN getAllAlarms(Current) :
          ~alarms[id].enabled => id \notin DOMAIN triggers)
  /\ []((ev.op = "toggleOff" /\ ev.ok) =>
          (/\ ev.id \in DOMAIN alarms
           /\ ~alarms[ev.id].enabled
           /\ ev.id \notin DOMAIN triggers))
  /\ []((ev.op = "toggleOn" /\ ev.ok) =>
          (/\ ev.id \in DOMAIN alarms
           /\ alarms[ev.id].enabled
           /\ ev.id \in DOMAIN triggers))
  /\ [][(ev'.op \in {"toggleOn", "toggleOff"} /\ ev'.id \notin DOMAIN alarms) =>
          (/\ ~ev'.ok
           /\ ev'.cmds = {}
           /\ alarms' = alarms /\ storage' = storage /\ triggers' = triggers)]_vars


\* C34: when initialize has completed without an error in a process started
\* anew, every persisted alarm with enabled = true has a live trigger and no
\* persisted alarm with enabled = false has one; when the re-arming of an
\* alarm was rejected, initialize reports an error or the alarm is no longer
\* listed as enabled.
C34_InitializeRearmsOrReports ==
  /\ (ev.op = "appStart" /\ ev.cold /\ ev.ok /\ ev.id = NoId) =>
       \A id \in DOMAIN storage.json :
         storage.json[id].enabled <=> id \in DOMAIN triggers
  /\ (ev.op = "appStart" /\ ev.cold /\ ev.ok) =>
       \A c \in ArmCmds(ev) :
         ~c.ok => ~(c.id \in DOMAIN getAllAlarms(Current) /\ alarms[c.id].enabled)


\* The records, the persisted list and the triggers a handler run leaves.
Left(m) == <<m.alarms, m.storage, m.triggers>>

\* The resolution of the firing of id run once from the present state under
\* the platform behaviour e1, and once more after it under e2.
Once(id, e1) == handleAlarmFired(Current, e1, id)

Twice(id, e1, e2) ==
  LET m1 == Once(id, e1).m
  IN handleAlarmFired(Machine(m1.alarms, m1.storage, m1.triggers, m1.shown, m1.ttsInit), e2, id)

Woken == IF proc = "dead" THEN Fresh(triggers, shown) ELSE Current

\* The ids a DELIVERED event can carry that belong to no alarm record.
Strangers == {NoId} \cup {id \in Ids : id \notin DOMAIN storage.json \cup DOMAIN alarms}

\* C36: a background event of another type than DELIVERED causes no speech
\* and changes no alarm record and no trigger; a DELIVERED event without an
\* alarm id, or with an id that has no record, still has the briefing spoken
\* and changes no persisted alarm record and no trigger.
C36_OnlyKnownDeliveredResolves ==
  /\ \A type \in {"PRESS", "DISMISSED"}, id \in Ids \cup {NoId}, e \in BriefingEnvs(Calm) :
       LET r == onBackgroundEvent(Woken, e, type, id, now)
       IN /\ r.ok
          /\ r.m.tried = <<>>
          /\ r.m.cmds = {}
          /\ Left(r.m) = Left(Woken)
  /\ \A id \in Strangers :
       LET r == onBackgroundEvent(Woken, Calm, "DELIVERED", id, now)
       IN /\ r.ok
          /\ "narration" \in Texts(r.m.said)
          /\ r.m.storage = storage
          /\ r.m.triggers = triggers


\* The callers whose initialize is between its first engine call and the
\* setting of isInitialized.
Configuring == {c \in Callers : callers[c].pc \in {SetupSteps[i] : i \in DOMAIN SetupSteps}}

\* C37: among overlapping calls of initialize and speak the configuration of
\* the voice engine is never under way for two callers at once.
C37_SetupNeverConcurrent == Cardinality(Configuring) <= 1


\* How many times the narration was handed to the voice output in a run.
Narrations(q) == Cardinality({i \in 1..Len(q) : q[i] = "narration"})

\* C38: a background dispatch in which no step fails hands exactly one
\* utterance to the voice output, the composed narration; and no dispatch,
\* background or foreground, has the narration spoken more than once for
\* one fire event.
C38_OneUtterancePerFire ==
  /\ (ev.op = "bgDelivered" /\ ev.ok /\ ev.failed = {}) => ev.tried = <<"narration">>
  /\ ev.op \in {"bgDelivered", "fgDelivered"} => Narrations(ev.tried) <= 1


\* C38 (amended): a background dispatch in which no step fails hands two
\* utterances to the voice output, the test utterance of its first step and
\* then the composed narration; and no dispatch, background or foreground,
\* has the narration spoken more than once for one fire event.
C38_TestThenNarration ==
  /\ (ev.op = "bgDelivered" /\ ev.ok /\ ev.failed = {}) =>
       ev.tried = <<"handlerCalled", "narration">>
  /\ ev.op \in {"bgDelivered", "fgDelivered"} => Narrations(ev.tried) <= 1

\* A background dispatch without a failing step has run its four steps and
\* the engine has spoken both utterances.
C38_Witness ==
  /\ ev.op = "bgDelivered"
  /\ ev.ok
  /\ ev.failed = {}
  /\ ev.steps = <<"voiceInit", "alarmInit", "briefing", "resolve">>
  /\ ev.said = <<"handlerCalled", "narration">>

====
